---------------------------- MODULE Spec2Model ----------------------------
(***************************************************************************)
(* testing-mcp: the broker's source-region editor (FileEditor, with its    *)
(* path-keyed promise lock), its session registry (ConnectionManager) and  *)
(* the tools built on the two (MCPTools).                                  *)
(*                                                                         *)
(* The specifications of the module:                                      *)
(*   EditorSpec   FileEditor.withFileLock and the mutating operations      *)
(*   Spec         ConnectionManager, every operation                       *)
(*   ExecSpec     ConnectionManager: transports, timers, execute requests  *)
(*   WaitSpec     ConnectionManager: transports, timers, waiters,          *)
(*                subscribers                                              *)
(*   CallSpec     ConnectionManager: the three suspending calls, close()   *)
(*   LiveSpec     CallSpec's operations for one rerun test, timers fair    *)
(*   ControlSpec  ConnectionManager: ExecSpec's operations and the control *)
(*                sends                                                    *)
(*   QuerySpec    ConnectionManager: messages, closes, the queries         *)
(*   KeySpec      QuerySpec's operations for tests with ':' in their names *)
(*   ToolSpec     MCPTools over FileEditor and ConnectionManager           *)
(*   NotifySpec   WaitSpec's operations with subscribers that throw        *)
(*   FrameSpec    ConnectionManager: ExecSpec's operations, waitForReady   *)
(*                and frames that are not well-formed messages             *)
(*   ClientSpec   connect() of one test process, the broker's messages     *)
(*                and the transport's events as inputs                     *)
(*   FileSpec     FileEditor on one file of any content, its operations    *)
(*                one after the other                                      *)
(*   ClientLiveSpec  ClientSpec with the client's timeout fair             *)
(*   TargetSpec   getCurrentTestState and executeTestStep over tests of    *)
(*                two files                                                *)
(***************************************************************************)
EXTENDS Integers, Sequences, FiniteSets, TLC

(***************************************************************************)
(* Bounds                                                                  *)
(***************************************************************************)
\* number of FileEditor operations submitted in one run
MaxOps == 3
\* number of transports (WebSocket connections) of one run
NumWs == 2
\* number of ready messages handled in one run
MaxReady == 2
\* number of suspending calls (sendExecute, waitForReady, waitForNewSession)
MaxCalls == 2
\* number of durable onStateUpdate subscribers
MaxSubs == 1
\* number of MCPTools calls
MaxTools == 1
\* number of execute requests sent to the client
MaxExecs == 2
\* number of lines of the file FileSpec starts on
MaxLen == 4

(***************************************************************************)
(* Part 1: FileEditor (src/src/server/fileEditor.ts)                       *)
(***************************************************************************)
\* A file is a sequence of lines.  A line is abstracted by what the editor
\* can tell about it:
\*   "begin"    contains '// >>>> TESTING-MCP:BEGIN'
\*   "end"      contains '// >>>> TESTING-MCP:END'
\*   "connect"  the statement `await connect(...)`
\*   "code"     any other line of the test
\*   "gen"      a line of generated code put in by insertCodeBeforeConnect
\*   "decl"     a statement that is not an expression statement and holds
\*              the awaited call, as `const s = await connect(...)`
\*   "open"     the first line of an expression statement that spans
\*              lines, as `test('...', async () => {`
\*   "close"    its last line, `});`
Lines == {"begin", "end", "connect", "code", "gen", "decl", "open", "close"}

\* Raw paths handed to the editor; path.resolve drops "." segments, so the
\* first two name the same file.
RawPaths == { <<"t", "a">>, <<"t", ".", "a">>, <<"t", "b">> }

RECURSIVE resolve(_)
resolve(p) ==
    IF p = <<>> THEN <<>>
    ELSE IF Head(p) = "." THEN resolve(Tail(p))
         ELSE <<Head(p)>> \o resolve(Tail(p))

NormalizedPaths == { resolve(p) : p \in RawPaths }

\* A path no file exists at (a tool can be handed any testFile).
MissingPath == <<"t", "c">>

\* The keys fileLocks can hold.
LockPaths == NormalizedPaths \cup {resolve(MissingPath)}

\* Contents a test file starts with (the second is the shape of the
\* repository's own fixture: a call site inside a marker region).
InitialContents ==
    { <<"code">>,
      <<"begin", "connect", "code", "end">>,
      <<"connect", "begin", "code", "end">> }

OpKinds == {"removeMarkers", "removeConnect", "insertCodeBeforeConnect"}

Ops == 1..MaxOps

\* removeMarkers' loop: drop every BEGIN and END line, keep the rest.
IsMarker(line) == line = "begin" \/ line = "end"

\* A filter that drops the BEGIN lines only (the alternative C21 is
\* checked against).
stripBeginLines(lines) == SelectSeq(lines, LAMBDA l : l # "begin")

stripMarkerLines(lines) == SelectSeq(lines, LAMBDA l : ~IsMarker(l))

\* The lines that hold an awaited connect call.
HoldsCall(line) == line = "connect" \/ line = "decl"

\* findConnectCall: position of the first awaited connect call, 0 if none.
RECURSIVE findConnectFrom(_, _)
findConnectFrom(lines, i) ==
    IF i > Len(lines) THEN 0
    ELSE IF HoldsCall(lines[i]) THEN i
         ELSE findConnectFrom(lines, i + 1)

findConnectCall(lines) == findConnectFrom(lines, 1)

\* The first line of the innermost multi-line expression statement around
\* line c, 0 if there is none: the walk of getParent() up from the call.
RECURSIVE enclosingOpenFrom(_, _, _)
enclosingOpenFrom(lines, j, depth) ==
    IF j < 1 THEN 0
    ELSE IF lines[j] = "close"
         THEN enclosingOpenFrom(lines, j - 1, depth + 1)
    ELSE IF lines[j] = "open"
         THEN (IF depth = 0 THEN j
               ELSE enclosingOpenFrom(lines, j - 1, depth - 1))
    ELSE enclosingOpenFrom(lines, j - 1, depth)

enclosingOpen(lines, c) == enclosingOpenFrom(lines, c - 1, 0)

\* The last line of the statement that opens at line o.
RECURSIVE matchingCloseFrom(_, _, _)
matchingCloseFrom(lines, j, depth) ==
    IF j > Len(lines) THEN Len(lines)
    ELSE IF lines[j] = "open"
         THEN matchingCloseFrom(lines, j + 1, depth + 1)
    ELSE IF lines[j] = "close"
         THEN (IF depth = 0 THEN j
               ELSE matchingCloseFrom(lines, j + 1, depth - 1))
    ELSE matchingCloseFrom(lines, j + 1, depth)

matchingClose(lines, o) == matchingCloseFrom(lines, o + 1, 0)

\* connectStatement: the nearest ExpressionStatement above the call found,
\* as <<first line, last line>>; <<>> when the walk ends at the source
\* file without meeting one (or no call was found).
connectStatement(lines) ==
    LET c == findConnectCall(lines)
        o == enclosingOpen(lines, c)
    IN  IF c = 0 THEN <<>>
        ELSE IF lines[c] = "connect" THEN <<c, c>>
        ELSE IF o = 0 THEN <<>>
        ELSE <<o, matchingClose(lines, o)>>

\* removeConnect's edit: connectStatement is removed, if there is one.
removeConnectStatement(lines) ==
    LET st == connectStatement(lines)
    IN  IF st = <<>> THEN lines
        ELSE SubSeq(lines, 1, st[1] - 1)
                \o SubSeq(lines, st[2] + 1, Len(lines))

\* insertCodeBeforeConnect's edit with markers: BEGIN, code, END before
\* connectStatement.
insertBeforeConnectStatement(lines) ==
    LET st == connectStatement(lines)
    IN  SubSeq(lines, 1, st[1] - 1) \o <<"begin", "gen", "end">>
            \o SubSeq(lines, st[1], Len(lines))

VARIABLES
    disk,        \* normalized path -> file content
    fileLocks,   \* FileEditor.fileLocks: normalized path -> op whose promise is the latch, 0 if none
    pc,          \* per op: where its call of withFileLock / its body stands
    kind,        \* per op: which operation it is
    path,        \* per op: the normalized path it works on
    buf,         \* per op: the content its body is about to write
    awaiting,    \* per op: the op whose lock promise it awaits (0: none)
    promise,     \* per op: state of its newLock promise
    outcome,     \* per op: how the call settled
    microtasks,  \* the event loop's microtask queue
    inSync,      \* the caller's synchronous block is still running
    called,      \* number of ops submitted so far
    together,    \* every op so far was submitted in the first synchronous block
    initial      \* the content each file started with

editorVars == <<disk, fileLocks, pc, kind, path, buf, awaiting, promise,
                outcome, microtasks, inSync, called, together, initial>>

EditorInit ==
    /\ disk \in [NormalizedPaths -> InitialContents]
    /\ initial = disk
    /\ fileLocks = [p \in LockPaths |-> 0]
    /\ pc = [i \in Ops |-> "idle"]
    /\ kind = [i \in Ops |-> "none"]
    /\ path = [i \in Ops |-> <<>>]
    /\ buf = [i \in Ops |-> <<>>]
    /\ awaiting = [i \in Ops |-> 0]
    /\ promise = [i \in Ops |-> "none"]
    /\ outcome = [i \in Ops |-> "none"]
    /\ microtasks = <<>>
    /\ inSync = FALSE
    /\ called = 0
    /\ together = TRUE

\* An operation that throws whenever it does not find the call (the
\* alternative C23 is checked against).
noCallSiteThrows(k) == "threw"

\* Without a call site removeConnect logs and returns,
\* insertCodeBeforeConnect throws (it also throws when the call has no
\* expression statement around it).
noCallSite(k) == IF k = "removeConnect" THEN "ok" ELSE "threw"

\* The newLock IIFE of withFileLock runs fn() up to its first await, and
\* the latch is installed right after.  mq is the microtask queue the step
\* leaves behind.
\*   removeMarkers: fs.readFile is issued, nothing is read yet.
\*   removeConnect / insertCodeBeforeConnect: addSourceFileAtPath reads the
\*   file at once; the edit is made in memory and sourceFile.save() is
\*   issued.  With no call site removeConnect returns and
\*   insertCodeBeforeConnect throws, both without any file I/O; with no
\*   file at the path addSourceFileAtPath throws.
startBody(i, k, np, mq) ==
    LET exists == np \in DOMAIN disk
        text == IF exists THEN disk[np] ELSE <<>>
        found == findConnectCall(text) # 0
    IN  /\ promise' = [promise EXCEPT ![i] = "pending"]
        /\ fileLocks' = [fileLocks EXCEPT ![np] = i]
        /\ IF k = "removeMarkers"
           THEN /\ pc' = [pc EXCEPT ![i] = "read"]
                /\ UNCHANGED <<buf, outcome>>
                /\ microtasks' = mq
           ELSE IF ~exists
           THEN /\ pc' = [pc EXCEPT ![i] = "settling"]
                /\ outcome' = [outcome EXCEPT ![i] = "threw"]
                /\ UNCHANGED buf
                /\ microtasks' = Append(mq, <<"settle", i>>)
           ELSE IF found /\ (k = "removeConnect"
                                \/ connectStatement(text) # <<>>)
           THEN /\ pc' = [pc EXCEPT ![i] = "trunc"]
                /\ buf' = [buf EXCEPT ![i] =
                              IF k = "removeConnect"
                              THEN removeConnectStatement(text)
                              ELSE insertBeforeConnectStatement(text)]
                /\ UNCHANGED outcome
                /\ microtasks' = mq
           ELSE /\ pc' = [pc EXCEPT ![i] = "settling"]
                /\ outcome' = [outcome EXCEPT ![i] = noCallSite(k)]
                /\ UNCHANGED buf
                /\ microtasks' = Append(mq, <<"settle", i>>)

\* An editor operation is called: withFileLock up to its first await.
\* With a latch registered for the path the call awaits it; without one
\* the body starts at once.
Call(i, k, p) ==
    LET np == resolve(p)
        existingLock == fileLocks[np]
    IN  /\ pc[i] = "idle"
        /\ i = called + 1
        /\ microtasks = <<>> \/ inSync
        /\ called' = i
        /\ together' = (together /\ (i = 1 \/ inSync))
        /\ inSync' = TRUE
        /\ kind' = [kind EXCEPT ![i] = k]
        /\ path' = [path EXCEPT ![i] = np]
        /\ IF existingLock # 0
           THEN /\ pc' = [pc EXCEPT ![i] = "awaitLock"]
                /\ awaiting' = [awaiting EXCEPT ![i] = existingLock]
                /\ UNCHANGED <<fileLocks, buf, promise, outcome, microtasks>>
           ELSE /\ startBody(i, k, np, microtasks)
                /\ UNCHANGED awaiting
        /\ UNCHANGED <<disk, initial>>

\* The ops whose `await existingLock` is on op j's promise, in the order
\* they began to wait (the order they were called in).
RECURSIVE waitersFrom(_, _)
waitersFrom(j, i) ==
    IF i > MaxOps THEN <<>>
    ELSE (IF pc[i] = "awaitLock" /\ awaiting[i] = j
          THEN << <<"resume", i>> >> ELSE <<>>) \o waitersFrom(j, i + 1)

\* The continuation after `await existingLock`: a rejected latch throws
\* out of withFileLock, a fulfilled one lets the body start.  The map is
\* not looked at again.
Resume(i) ==
    /\ microtasks # <<>>
    /\ Head(microtasks) = <<"resume", i>>
    /\ inSync' = FALSE
    /\ IF promise[awaiting[i]] = "rejected"
       THEN /\ pc' = [pc EXCEPT ![i] = "done"]
            /\ outcome' = [outcome EXCEPT ![i] = "rejectedByEarlier"]
            /\ microtasks' = Tail(microtasks)
            /\ UNCHANGED <<fileLocks, buf, promise>>
       ELSE startBody(i, kind[i], path[i], Tail(microtasks))
    /\ UNCHANGED <<disk, initial, kind, path, awaiting, called, together>>

\* fn() has settled: the finally block deletes whatever latch is
\* registered for the path, the newLock promise settles and the calls
\* awaiting it are scheduled.
Settle(i) ==
    /\ microtasks # <<>>
    /\ Head(microtasks) = <<"settle", i>>
    /\ inSync' = FALSE
    /\ fileLocks' = [fileLocks EXCEPT ![path[i]] = 0]
    /\ promise' = [promise EXCEPT ![i] =
                      IF outcome[i] = "threw" THEN "rejected" ELSE "fulfilled"]
    /\ pc' = [pc EXCEPT ![i] = "done"]
    /\ microtasks' = Tail(microtasks) \o waitersFrom(i, 1)
    /\ UNCHANGED <<disk, initial, kind, path, buf, awaiting, outcome,
                   called, together>>

\* fs.readFile of removeMarkers completes: the content read is filtered
\* and fs.writeFile is issued with the result.  With no file at the path
\* the read fails and fn() rejects.
ReadDisk(i) ==
    /\ pc[i] = "read"
    /\ IF path[i] \in DOMAIN disk
       THEN /\ buf' = [buf EXCEPT ![i] = stripMarkerLines(disk[path[i]])]
            /\ pc' = [pc EXCEPT ![i] = "trunc"]
            /\ UNCHANGED <<outcome, microtasks, inSync>>
       ELSE /\ microtasks = <<>>
            /\ inSync' = FALSE
            /\ pc' = [pc EXCEPT ![i] = "settling"]
            /\ outcome' = [outcome EXCEPT ![i] = "threw"]
            /\ microtasks' = <<<<"settle", i>>>>
            /\ UNCHANGED buf
    /\ UNCHANGED <<disk, initial, fileLocks, kind, path, awaiting, promise,
                   called, together>>

\* A write (fs.writeFile, sourceFile.save) opens the file truncating it ...
Truncate(i) ==
    /\ pc[i] = "trunc"
    /\ disk' = [disk EXCEPT ![path[i]] = <<>>]
    /\ pc' = [pc EXCEPT ![i] = "write"]
    /\ UNCHANGED <<initial, fileLocks, kind, path, buf, awaiting, promise,
                   outcome, microtasks, inSync, called, together>>

\* ... and then writes the whole content.
WriteDisk(i) ==
    /\ pc[i] = "write"
    /\ disk' = [disk EXCEPT ![path[i]] = buf[i]]
    /\ pc' = [pc EXCEPT ![i] = "written"]
    /\ UNCHANGED <<initial, fileLocks, kind, path, buf, awaiting, promise,
                   outcome, microtasks, inSync, called, together>>

\* The write's completion reaches the event loop: fn() resolves.
WriteCallback(i) ==
    /\ pc[i] = "written"
    /\ microtasks = <<>>
    /\ inSync' = FALSE
    /\ pc' = [pc EXCEPT ![i] = "settling"]
    /\ outcome' = [outcome EXCEPT ![i] = "ok"]
    /\ microtasks' = <<<<"settle", i>>>>
    /\ UNCHANGED <<disk, initial, fileLocks, kind, path, buf, awaiting,
                   promise, called, together>>

\* fn is running: the body has started and has not finished.
inBody(i) == pc[i] \in {"read", "trunc", "write", "written"}

\* fn has finished (its promise is settled or about to be).
bodyOver(i) == pc[i] \in {"settling", "done"}

(***************************************************************************)
(* C1: removeMarkers, removeConnect, removeMarkers issued against one file *)
(* without awaiting between them leave the file as the three run one after *)
(* the other in submission order would.                                    *)
(***************************************************************************)
sequentialResult(text) ==
    stripMarkerLines(removeConnectStatement(stripMarkerLines(text)))

C1_Batch ==
    /\ together
    /\ called = 3
    /\ kind[1] = "removeMarkers"
    /\ kind[2] = "removeConnect"
    /\ kind[3] = "removeMarkers"
    /\ path[2] = path[1]
    /\ path[3] = path[1]
    /\ \A i \in 1..3 : pc[i] = "done"

C1_ConcurrentEqualsSequential ==
    C1_Batch => disk[path[1]] = sequentialResult(initial[path[1]])

(***************************************************************************)
(* C2: on one normalized path at most one body runs at a time, and a body  *)
(* starts only after every operation submitted earlier on that path is     *)
(* over.                                                                   *)
(***************************************************************************)
C2_MutualExclusion ==
    \A i, j \in Ops :
        (i < j /\ path[i] = path[j] /\ (inBody(j) \/ bodyOver(j)))
            => bodyOver(i)

(***************************************************************************)
(* Part 2: ConnectionManager (src/unnamed/part_011)                        *)
(***************************************************************************)
WS == 1..NumWs
Calls == 1..MaxCalls
Subs == 1..MaxSubs

\* The identities (testFile, testName) tests connect under.
Identities ==
    { [testFile |-> "a", testName |-> "t1"],
      [testFile |-> "a", testName |-> "t2"] }

getConnectionKey(testFile, testName) == testFile \o ":" \o testName

\* The DOM snapshots an executed message can carry (a ready carries DOM 0).
Doms == {1, 2}

\* No message / no state / no call.
NoMsg == [type |-> "none", ws |-> 0, executeId |-> 0,
          state |-> [testFile |-> "", testName |-> "", dom |-> 0, sessionId |-> 0]]
NoState == [testFile |-> "", testName |-> "", dom |-> 0, sessionId |-> 0]
NoCall == [kind |-> "none", testFile |-> "", testName |-> "",
           currentSessionId |-> 0, status |-> "idle", result |-> NoState,
           error |-> "", timer |-> "none", conn |-> 0, token |-> 0,
           settles |-> 0, resolvedBy |-> NoMsg]

\* No synchronous call returned in the step.  value holds what was
\* returned: <<>> stands for null (or an empty array).
NoReturn == [op |-> "none", testFile |-> "", testName |-> "", ok |-> FALSE,
             value |-> <<>>]

\* Callback handles: the closure of a waiting call, or a durable subscriber.
waiterCb(c) == [t |-> "waiter", id |-> c]
subCb(s) == [t |-> "sub", id |-> s]

VARIABLES
    connections,           \* Map key -> ConnectionInfo, in insertion order: Seq of [key, info]
    infos,                 \* every ConnectionInfo object built so far (info = its index)
    stateUpdateCallbacks,  \* the global callback list
    pendingCallbacks,      \* Map callback -> {testFile, testName}
    calls,                 \* the suspending calls made so far; settles counts the
                           \* resolve/reject invocations, resolvedBy is the message
                           \* whose handler invoked resolve
    now,                   \* Date.now()
    wsState,               \* per transport: "open", "closing", "closed"
    outbox,                \* the messages the broker sent in the last step
    notified,              \* the callbacks the last step's notifyStateUpdate invoked
    managerClosed,         \* close() was called
    effects,               \* what the last step's handler did, in order
    returned               \* what the last step's synchronous call returned

cmVars == <<connections, infos, stateUpdateCallbacks, pendingCallbacks, calls,
            now, wsState, outbox, notified, managerClosed, effects, returned>>

\* No identity given.
NoIdentity == [testFile |-> "", testName |-> ""]

\* The MCPTools calls (src/src/server/tools.ts).
Tools == 1..MaxTools

VARIABLES
    tools        \* per MCPTools call: its parameters, where it stands, what
                 \* it did so far (log) and how its promise settled

toolVars == <<tools>>

\* A call that was not made yet.  awaits is the editor operation or the
\* suspending call whose promise the call awaits, edits the editor
\* operations it called, log what it called so far.
NoTool ==
    [op |-> "none", pc |-> "idle", testFile |-> "", testName |-> "",
     removeMarkers |-> FALSE, conn |-> NoIdentity, awaits |-> 0,
     settled |-> "none", success |-> FALSE, error |-> "", value |-> <<>>,
     edits |-> <<>>, log |-> <<>>]

ToolsInit == tools = [t \in Tools |-> NoTool]

VARIABLES client

clientVars == <<client>>

vars == <<editorVars, cmVars, toolVars, clientVars>>

(***************************************************************************)
(* The client: connect() of one test process (src/unnamed/part_010)       *)
(***************************************************************************)
\* The execute requests the client may be sent, by executeId.
ExecIds == 1..MaxExecs

\* What the code of an execute request does: "" it completes, otherwise it
\* throws an error with this message.
CodeErrors == {"", "boom"}

NoDomError == "Cannot execute code: no DOM environment available"

\* client is the state of the test process:
\*   pc         where connect() is: "idle", "preparing" (waitForAsync
\*              Operations, collectCurrentState, getWebSocketImpl),
\*              "suspended" (awaiting connectToServer's promise), "done"
\*   result     how connect() ended: "none", "returned", "threw"
\*   via        what ended it
\*   promise    connectToServer's promise
\*   ws         the client's transport: "none", "connecting", "open",
\*              "closing" (ws.close() called), "closed"
\*   timer      the connection timeout
\*   dom        the process has a document
\*   sessionId  the session id received
\*   execs      per executeId the handler's state: "none", "running",
\*              "sent" (ws.send called on the open transport),
\*              "dropped" (ws.send called on a transport no longer open)
\*   ran        per executeId the message of the error its run ended
\*              with, "" when the code completed (or has not ended)
\*   sent       the messages the client has put on its transport
\*   last       the event handled last
NoClient ==
    [pc |-> "idle", result |-> "none", via |-> "none", promise |-> "none",
     ws |-> "none", timer |-> "none", dom |-> TRUE, sessionId |-> 0,
     execs |-> [e \in ExecIds |-> "none"],
     ran |-> [e \in ExecIds |-> ""], sent |-> <<>>, last |-> "none"]

ClientInit == client = NoClient

\* A connect() whose try has no catch (the alternative C27 is checked
\* against): the rejection reaches the test.
connectRethrows(settled) == IF settled = "rejected" THEN "threw" ELSE "returned"

\* connect(): `try { ... await connectToServer(...) } catch (error) {
\* console.error(...) }`: it returns normally however the try ended.
connectCatches(settled) == "returned"

\* resolve() / reject() of connectToServer's promise: the first one settles
\* it and the await in connect() goes on; later ones do nothing.
settle(cl, how, why) ==
    IF cl.promise # "pending" THEN cl
    ELSE [cl EXCEPT !.promise = how, !.pc = "done",
                    !.result = connectCatches(how), !.via = why]

\* clearTimeout(timeoutId)
clearClientTimer(cl) ==
    [cl EXCEPT !.timer = IF @ = "armed" THEN "cleared" ELSE @]

\* ws.close()
closeTransport(cl) ==
    [cl EXCEPT !.ws = IF @ \in {"connecting", "open"} THEN "closing" ELSE @]

clientStep(cl) == client' = cl /\ UNCHANGED <<editorVars, cmVars, toolVars>>

\* connect() is called: outside a development run (TESTING_MCP unset, CI
\* set) it returns at once.
Connect(enabled, dom) ==
    /\ client.pc = "idle"
    /\ clientStep(IF enabled
                  THEN [client EXCEPT !.pc = "preparing", !.dom = dom,
                                      !.last = "connect"]
                  ELSE [client EXCEPT !.pc = "done", !.result = "returned",
                                      !.via = "skipped", !.last = "connect"])

\* The steps before the socket: when one of them throws the catch of
\* connect() takes it; otherwise connectToServer creates the socket and
\* arms the timeout.
Prepared(fails) ==
    /\ client.pc = "preparing"
    /\ clientStep(IF fails
                  THEN [client EXCEPT !.pc = "done",
                                      !.result = connectCatches("rejected"),
                                      !.via = "prepare", !.last = "prepared"]
                  ELSE [client EXCEPT !.pc = "suspended",
                                      !.promise = "pending",
                                      !.ws = "connecting",
                                      !.timer = "armed",
                                      !.last = "prepared"])

\* onOpen: the ready message is sent.
Open ==
    /\ client.ws = "connecting"
    /\ clientStep([client EXCEPT !.ws = "open",
                                 !.sent = Append(@, [type |-> "ready",
                                                     executeId |-> 0,
                                                     errors |-> <<>>]),
                                 !.last = "open"])

\* A message can come in while the transport is open or closing.
clientCanReceive == client.ws \in {"open", "closing"}

\* onMessage, type connected.
RecvConnected(sid) ==
    /\ clientCanReceive
    /\ clientStep([client EXCEPT !.sessionId = sid, !.last = "connected"])

\* onMessage, type continue.
RecvContinue ==
    /\ clientCanReceive
    /\ clientStep([client EXCEPT !.last = "continue"])

\* onMessage, type execute: handleExecuteMessage starts; it is not awaited.
RecvExecute(e) ==
    /\ clientCanReceive
    /\ client.execs[e] = "none"
    /\ clientStep([client EXCEPT !.execs[e] = "running", !.last = "execute"])

\* A reply without the errors of the run (the alternative C26 is checked
\* against).
executedPlain(e, err) ==
    [type |-> "executed", executeId |-> e, errors |-> <<>>]

\* The executed message of handleExecuteMessage: the state collected after
\* the run, with errors: [message] when the run threw.
executedMessage(e, err) ==
    [type |-> "executed", executeId |-> e,
     errors |-> IF err = "" THEN <<>> ELSE <<err>>]

\* handleExecuteMessage gets to its ws.send: after the code completed and
\* the state was collected, or in the catch after the code (or the missing
\* DOM) threw.  A send on a transport that is no longer open is dropped.
ExecuteDone(e, err) ==
    LET error == IF client.dom THEN err ELSE NoDomError
    IN  /\ client.execs[e] = "running"
        /\ clientStep(IF client.ws = "open"
                      THEN [client EXCEPT
                              !.execs[e] = "sent",
                              !.ran[e] = error,
                              !.sent = Append(@, executedMessage(e, error)),
                              !.last = "executeDone"]
                      ELSE [client EXCEPT !.execs[e] = "dropped",
                                          !.ran[e] = error,
                                          !.last = "executeDone"])

\* onMessage, type close: clearTimeout, ws.close(), resolve().
RecvClose ==
    /\ clientCanReceive
    /\ clientStep([settle(closeTransport(clearClientTimer(client)),
                          "resolved", "close")
                      EXCEPT !.last = "close"])

\* onMessage, type error: clearTimeout, ws.close(), reject().
RecvError ==
    /\ clientCanReceive
    /\ clientStep([settle(closeTransport(clearClientTimer(client)),
                          "rejected", "error")
                      EXCEPT !.last = "error"])

\* onMessage with text JSON.parse rejects, or of an unknown type: the catch
\* logs.
RecvMalformed ==
    /\ clientCanReceive
    /\ clientStep([client EXCEPT !.last = "malformed"])

\* onError: clearTimeout, reject(error).
TransportError ==
    /\ client.ws \in {"connecting", "open", "closing"}
    /\ clientStep([settle(clearClientTimer(client), "rejected",
                          "transportError")
                      EXCEPT !.last = "transportError"])

\* onClose: clearTimeout; the promise is left as it is.
TransportClose ==
    /\ client.ws \in {"connecting", "open", "closing"}
    /\ clientStep([clearClientTimer(client) EXCEPT !.ws = "closed",
                                                   !.last = "transportClose"])

\* The connection timeout fires: ws.close(), reject().
ClientTimeout ==
    /\ client.timer = "armed"
    /\ clientStep([settle(closeTransport([client EXCEPT !.timer = "fired"]),
                          "rejected", "timeout")
                      EXCEPT !.last = "timeout"])

ClientNext ==
    \/ \E enabled \in BOOLEAN, dom \in BOOLEAN : Connect(enabled, dom)
    \/ \E fails \in BOOLEAN : Prepared(fails)
    \/ Open
    \/ \E sid \in 1..MaxReady : RecvConnected(sid)
    \/ RecvContinue
    \/ \E e \in ExecIds : RecvExecute(e)
    \/ \E e \in ExecIds, err \in CodeErrors : ExecuteDone(e, err)
    \/ RecvClose
    \/ RecvError
    \/ RecvMalformed
    \/ TransportError
    \/ TransportClose
    \/ ClientTimeout


CMInit ==
    /\ connections = <<>>
    /\ infos = <<>>
    /\ stateUpdateCallbacks = <<>>
    /\ pendingCallbacks = {}
    /\ calls = [c \in Calls |-> NoCall]
    /\ now = 0
    /\ wsState = [w \in WS |-> "open"]
    /\ outbox = <<>>
    /\ notified = <<>>
    /\ managerClosed = FALSE
    /\ effects = <<>>
    /\ returned = NoReturn

\* ---- Map and array helpers -------------------------------------------
\* Position of key in the connection map, 0 if absent.
RECURSIVE keyIndexFrom(_, _, _)
keyIndexFrom(conns, key, i) ==
    IF i > Len(conns) THEN 0
    ELSE IF conns[i].key = key THEN i
         ELSE keyIndexFrom(conns, key, i + 1)

\* connections.get(key): the info stored under key, 0 if none.
connectionsGet(conns, key) ==
    LET i == keyIndexFrom(conns, key, 1)
    IN  IF i = 0 THEN 0 ELSE conns[i].info

\* connections.set(key, info): an existing key keeps its place.
connectionsSet(conns, key, info) ==
    LET i == keyIndexFrom(conns, key, 1)
    IN  IF i = 0 THEN Append(conns, [key |-> key, info |-> info])
        ELSE [conns EXCEPT ![i] = [key |-> key, info |-> info]]

\* connections.delete(key)
connectionsDelete(conns, key) ==
    SelectSeq(conns, LAMBDA e : e.key # key)

\* Array.prototype.indexOf, 0-based, -1 if absent.
RECURSIVE indexOfFrom(_, _, _)
indexOfFrom(arr, x, i) ==
    IF i > Len(arr) THEN -1
    ELSE IF arr[i] = x THEN i - 1
         ELSE indexOfFrom(arr, x, i + 1)

indexOf(arr, x) == indexOfFrom(arr, x, 1)

\* Array.prototype.splice(start, 1): a negative start counts from the end.
splice1(arr, start) ==
    LET n == Len(arr)
        at == IF start < 0 THEN (IF n + start < 0 THEN 0 ELSE n + start)
              ELSE (IF start > n THEN n ELSE start)
    IN  SubSeq(arr, 1, at) \o SubSeq(arr, at + 2, n)

\* ---- Promises and timers of the suspending calls ---------------------
\* A settlement that leaves the timer armed (the alternative C10 is checked
\* against).
keepTimer(cl) == cl

\* clearTimeout(timeoutId)
clearTimer(cl) == [cl EXCEPT !.timer = IF @ = "armed" THEN "cleared" ELSE @]

\* resolve(state) of the call's promise: only the first settlement counts.
resolveCall(cl, st, msg) ==
    [cl EXCEPT !.settles = @ + 1,
               !.status = IF @ = "pending" THEN "resolved" ELSE @,
               !.result = IF cl.status = "pending" THEN st ELSE @,
               !.resolvedBy = IF cl.status = "pending" THEN msg ELSE @]

\* reject(new Error(...)) of the call's promise.
rejectCall(cl, err) ==
    [cl EXCEPT !.settles = @ + 1,
               !.status = IF @ = "pending" THEN "rejected" ELSE @,
               !.error = IF cl.status = "pending" THEN err ELSE @]

\* ---- Closures the registry still holds -----------------------------------
\* The closures of a call (its timer's, its state-update callback, its
\* execute resolver) are the only way the registry can touch the call's
\* promise.  A call is reachable while one of them is still held.
reachable(c) ==
    \/ calls[c].timer = "armed"
    \/ indexOf(stateUpdateCallbacks, waiterCb(c)) # -1
    \/ \E e \in 1..Len(infos) : \E r \in infos[e].executeResolvers : r.call = c
    \/ \E t \in Tools : tools[t].pc = "awaitExecute" /\ tools[t].awaits = c

\* A settled call nothing can reach any more has been handed to its caller:
\* its record is kept for the one state that follows the settlement.
Done == [NoCall EXCEPT !.status = "done"]

liveCalls ==
    [c \in Calls |->
        IF calls[c].status \in {"resolved", "rejected"} /\ ~reachable(c)
        THEN Done ELSE calls[c]]

\* A ConnectionInfo that is neither in the map nor holds a resolver is out
\* of the registry's reach as well.
NoInfo ==
    [ws |-> 0, testFile |-> "", testName |-> "", state |-> NoState,
     connectedAt |-> 0, sessionId |-> 0, callbacks |-> {},
     executeResolvers |-> {}]

liveInfos ==
    [e \in 1..Len(infos) |->
        IF (\A i \in 1..Len(connections) : connections[i].info # e)
           /\ infos[e].executeResolvers = {}
        THEN NoInfo ELSE infos[e]]

\* ---- The waiters' callbacks --------------------------------------------
\* The `if` of the callback built by waitForReady / waitForNewSession.
waiterMatches(cl, st) ==
    /\ st.testFile = cl.testFile
    /\ st.testName = cl.testName
    /\ cl.kind = "waitForNewSession" =>
           (st.sessionId # 0 /\ st.sessionId # cl.currentSessionId)

\* How a matching waiter takes itself off the global list: waitForReady
\* splices at indexOf unchecked, waitForNewSession only when found.
removeSelf(cl, cbs, cb) ==
    LET index == indexOf(cbs, cb)
    IN  IF cl.kind = "waitForReady" THEN splice1(cbs, index)
        ELSE IF index # -1 THEN splice1(cbs, index) ELSE cbs

\* One callback is called with st.  M is the manager's mutable state while
\* notifyStateUpdate runs: [cbs, pend, infos, calls, notified], with the
\* subscribers whose callback throws on this call (throwers) and the errors
\* the catch around the call has logged (errors).
invokeCallback(M, cb, st, conns, msg) ==
    LET M1 == [M EXCEPT !.notified = Append(@, cb)]
    IN  IF cb.t = "sub"
        THEN (IF cb \in M.throwers
              THEN [M1 EXCEPT !.errors = Append(@, cb)]
              ELSE M1)
        ELSE LET cl == M.calls[cb.id]
                 e == connectionsGet(conns,
                          getConnectionKey(cl.testFile, cl.testName))
             IN  IF ~waiterMatches(cl, st) THEN M1
                 ELSE [M1 EXCEPT
                         !.cbs = removeSelf(cl, @, cb),
                         !.pend = {q \in @ : q.cb # cb},
                         !.infos = IF e = 0 THEN @
                                   ELSE [@ EXCEPT ![e].callbacks = @ \cup {cb}],
                         !.calls = [@ EXCEPT ![cb.id] =
                                       resolveCall(clearTimer(cl), st, msg)]]

\* notifyStateUpdate: `for (const callback of this.stateUpdateCallbacks)`.
\* The array iterator reads position i of the array as it is at that
\* moment, and stops when i reaches its current length.
RECURSIVE notifyFrom(_, _, _, _, _)
notifyFrom(M, i, st, conns, msg) ==
    IF i > Len(M.cbs) THEN M
    ELSE notifyFrom(invokeCallback(M, M.cbs[i], st, conns, msg), i + 1, st,
                    conns, msg)

notifyStateUpdate(M, st, conns, msg) == notifyFrom(M, 1, st, conns, msg)

\* ---- Inbound messages ---------------------------------------------------
\* generateSessionId / randomUUID: an id never handed out before.  Session
\* ids are numbered by the entry they are made for, execute tokens by the
\* call they are made for.
generateSessionId == Len(infos) + 1

generateExecuteId(c) == c

canReceive(w) == wsState[w] \in {"open", "closing"}

\* A send of the acknowledgement that throws ends the handler (the
\* alternative C13 is checked against).
ackFailureAborts(sendThrows) == ~sendThrows

\* The try/catch around the send of the acknowledgement: the handler goes
\* on to notifyStateUpdate whether the send threw or not.
ackFailureContinues(sendThrows) == TRUE

\* handleReadyMessage.  Date.now() has advanced since the last ready
\* (tick) or still reads the same millisecond.  H is the handler's
\* progress: the map, the objects, the messages sent and the log of what it
\* did so far.
readyHandled(w, id, sendThrows, tick, throwers) ==
    LET key == getConnectionKey(id.testFile, id.testName)
        sessionId == generateSessionId
        stateWithSession == [testFile |-> id.testFile, testName |-> id.testName,
                             dom |-> 0, sessionId |-> sessionId]
        date == IF tick THEN now + 1 ELSE now
        connectionInfo == [ws |-> w, testFile |-> id.testFile,
                           testName |-> id.testName, state |-> stateWithSession,
                           connectedAt |-> date, sessionId |-> sessionId,
                           callbacks |-> {}, executeResolvers |-> {}]
        \* this.connections.set(key, connectionInfo)
        H1 == [conns |-> connectionsSet(connections, key, Len(infos) + 1),
               heap |-> Append(liveInfos, connectionInfo),
               out |-> <<>>,
               log |-> <<[op |-> "set", sessionId |-> connectionInfo.sessionId,
                          ok |-> TRUE]>>]
        \* try { ws.send(connected) } catch { }
        H2 == [H1 EXCEPT
                 !.out = IF sendThrows THEN @
                         ELSE Append(@, [ws |-> w, type |-> "connected",
                                         id |-> sessionId]),
                 !.log = Append(@, [op |-> "send", sessionId |-> sessionId,
                                    ok |-> ~sendThrows])]
        M0 == [cbs |-> stateUpdateCallbacks, pend |-> pendingCallbacks,
               infos |-> H2.heap, calls |-> liveCalls, notified |-> <<>>,
               throwers |-> throwers, errors |-> <<>>]
        \* this.notifyStateUpdate(stateWithSession)
        M == IF ackFailureContinues(sendThrows)
             THEN notifyStateUpdate(M0, stateWithSession, H2.conns,
                      [type |-> "ready", ws |-> w, executeId |-> 0,
                       state |-> stateWithSession])
             ELSE M0
        log == IF ackFailureContinues(sendThrows)
               THEN Append(H2.log, [op |-> "notify",
                                    sessionId |-> stateWithSession.sessionId,
                                    ok |-> TRUE])
                    \o [n \in 1..Len(M.errors) |->
                           [op |-> "callbackError",
                            sessionId |-> stateWithSession.sessionId,
                            ok |-> FALSE, cb |-> M.errors[n]]]
               ELSE H2.log
    IN  /\ canReceive(w)
        /\ Len(infos) < MaxReady
        /\ now' = date
        /\ connections' = H2.conns
        /\ outbox' = H2.out
        /\ stateUpdateCallbacks' = M.cbs
        /\ pendingCallbacks' = M.pend
        /\ infos' = M.infos
        /\ calls' = M.calls
        /\ notified' = M.notified
        /\ effects' = log
        /\ returned' = NoReturn
        /\ UNCHANGED <<wsState, managerClosed>>

\* A ready message none of whose callbacks throws.
Ready(w, id, sendThrows, tick) == readyHandled(w, id, sendThrows, tick, {})

\* A ready message during which the callbacks of the subscribers in
\* throwers throw.
ReadyThrowing(w, id, throwers) ==
    /\ throwers # {}
    /\ \A cb \in throwers : indexOf(stateUpdateCallbacks, cb) # -1
    /\ readyHandled(w, id, FALSE, TRUE, throwers)

\* A lookup that takes the first entry whatever its transport (the
\* alternative C6 is checked against).
findFirstEntry(conns, heap, w) == IF Len(conns) = 0 THEN 0 ELSE 1

\* The first entry of the map whose ws is w (0 if none): the loop of
\* handleExecutedMessage and of removeConnectionByWebSocket.
RECURSIVE findByWsFrom(_, _, _, _)
findByWsFrom(conns, heap, w, i) ==
    IF i > Len(conns) THEN 0
    ELSE IF heap[conns[i].info].ws = w THEN i
         ELSE findByWsFrom(conns, heap, w, i + 1)

\* A search that falls back on the first entry of the map when the
\* transport has none (the alternative C33 is checked against).
findByWsOrFirst(conns, heap, w) ==
    IF findByWsFrom(conns, heap, w, 1) # 0 THEN findByWsFrom(conns, heap, w, 1)
    ELSE IF Len(conns) = 0 THEN 0 ELSE 1

findByWebSocket(conns, heap, w) == findByWsFrom(conns, heap, w, 1)

\* A lookup that takes the oldest resolver of the entry when the token has
\* none (the alternative C31 is checked against).
resolversForOrOldest(info, executeId) ==
    LET own == {r \in info.executeResolvers : r.executeId = executeId}
    IN  IF own # {} \/ info.executeResolvers = {} THEN own
        ELSE {CHOOSE r \in info.executeResolvers :
                 \A q \in info.executeResolvers : r.executeId <= q.executeId}

\* A lookup that ignores the token (the alternative C5 is checked against).
resolversForAny(info, executeId) == info.executeResolvers

\* executeResolvers.get(executeId): the calls whose resolver is stored
\* under the token (at most one).
resolversFor(info, executeId) ==
    {r \in info.executeResolvers : r.executeId = executeId}

\* A handler that looks the token up in every ConnectionInfo, whatever the
\* transport the message came in on (the alternative C29 is checked
\* against).
handleExecutedAnywhere(w, executeId, st) ==
    LET rs == UNION {resolversFor(infos[e], executeId) : e \in 1..Len(infos)}
    IN  /\ infos' = [e \in 1..Len(infos) |->
                        [liveInfos[e] EXCEPT !.executeResolvers = @ \ rs]]
        /\ calls' = [c \in Calls |->
                        IF \E r \in rs : r.call = c
                        THEN resolveCall(clearTimer(liveCalls[c]), st,
                                 [type |-> "executed", ws |-> w,
                                  executeId |-> executeId, state |-> st])
                        ELSE liveCalls[c]]

\* handleExecutedMessage
handleExecutedMessage(w, executeId, st) ==
    LET i == findByWebSocket(connections, infos, w)
        e == connections[i].info
        rs == resolversFor(infos[e], executeId)
    IN  IF i = 0 THEN infos' = liveInfos /\ calls' = liveCalls
        ELSE /\ infos' = [liveInfos EXCEPT ![e].state = st,
                                       ![e].executeResolvers = @ \ rs]
             /\ calls' = [c \in Calls |->
                            IF \E r \in rs : r.call = c
                            THEN resolveCall(clearTimer(liveCalls[c]), st,
                                     [type |-> "executed", ws |-> w,
                                      executeId |-> executeId, state |-> st])
                            ELSE liveCalls[c]]

Executed(w, executeId, st) ==
    /\ canReceive(w)
    /\ handleExecutedMessage(w, executeId, st)
    /\ notified' = <<>>
    /\ effects' = <<>>
    /\ returned' = NoReturn
    /\ outbox' = <<>>
    /\ UNCHANGED <<connections, stateUpdateCallbacks, pendingCallbacks, now, wsState, managerClosed>>

\* ---- The suspending calls ----------------------------------------------
\* Call slots are used in order.
freeSlot(c) ==
    /\ calls[c].status = "idle"
    /\ IF c = 1 THEN TRUE ELSE calls[c - 1].status # "idle"

\* The tokens sendExecute has handed out.
issuedTokens == {calls[c].token : c \in {d \in Calls : calls[d].token # 0}}

\* A sendExecute that, without a ConnectionEntry, arms its timer and waits
\* (the alternative C7 is checked against).
sendExecuteWaits(c, id) ==
    /\ calls' = [liveCalls EXCEPT ![c] =
                    [NoCall EXCEPT !.kind = "sendExecute",
                                   !.testFile = id.testFile,
                                   !.testName = id.testName,
                                   !.status = "pending",
                                   !.timer = "armed"]]
    /\ outbox' = <<>>
    /\ infos' = liveInfos

\* sendExecute without a ConnectionEntry: `throw new Error('No connection
\* found ...')` before anything is built.
sendExecuteNoConnection(c, id) ==
    /\ calls' = [liveCalls EXCEPT ![c] =
                    [NoCall EXCEPT !.kind = "sendExecute",
                                   !.testFile = id.testFile,
                                   !.testName = id.testName,
                                   !.status = "rejected",
                                   !.error = "NoConnection",
                                   !.settles = 1]]
    /\ outbox' = <<>>
    /\ infos' = liveInfos

\* sendExecute with a ConnectionEntry e: the timer is armed, the resolver
\* is stored under a fresh token, the execute message is sent; a send that
\* throws clears the timer, drops the resolver and rejects.
sendExecuteConnected(c, id, e, sendThrows) ==
    LET executeId == generateExecuteId(c)
        cl == [NoCall EXCEPT !.kind = "sendExecute",
                             !.testFile = id.testFile,
                             !.testName = id.testName,
                             !.status = "pending",
                             !.timer = "armed",
                             !.conn = e,
                             !.token = executeId]
        resolver == [executeId |-> executeId, call |-> c]
    IN  IF sendThrows
        THEN /\ calls' = [liveCalls EXCEPT ![c] =
                             rejectCall(clearTimer(cl), "SendFailed")]
             /\ outbox' = <<>>
             /\ infos' = liveInfos
        ELSE /\ calls' = [liveCalls EXCEPT ![c] = cl]
             /\ infos' = [liveInfos EXCEPT ![e].executeResolvers =
                                           @ \cup {resolver}]
             /\ outbox' = <<[ws |-> infos[e].ws, type |-> "execute",
                             id |-> executeId]>>

SendExecute(c, id, sendThrows) ==
    LET e == connectionsGet(connections,
                 getConnectionKey(id.testFile, id.testName))
    IN  /\ freeSlot(c)
        /\ IF e = 0 THEN sendExecuteNoConnection(c, id)
           ELSE sendExecuteConnected(c, id, e, sendThrows)
        /\ notified' = <<>>
        /\ effects' = <<>>
        /\ returned' = NoReturn
        /\ UNCHANGED <<connections, stateUpdateCallbacks, pendingCallbacks,
                       now, wsState, managerClosed>>

\* The tail shared by waitForReady and waitForNewSession: the callback is
\* pushed on the global list and tracked as pending, the timer is armed.
registerWaiter(c, k, id, currentSessionId) ==
    /\ calls' = [liveCalls EXCEPT ![c] =
                    [NoCall EXCEPT !.kind = k,
                                   !.testFile = id.testFile,
                                   !.testName = id.testName,
                                   !.currentSessionId = currentSessionId,
                                   !.status = "pending",
                                   !.timer = "armed"]]
    /\ stateUpdateCallbacks' = Append(stateUpdateCallbacks, waiterCb(c))
    /\ pendingCallbacks' = pendingCallbacks \cup
           {[cb |-> waiterCb(c), testFile |-> id.testFile,
             testName |-> id.testName]}

\* waitForReady: an identity already connected resolves at once.
WaitForReady(c, id) ==
    LET existing == connectionsGet(connections,
                        getConnectionKey(id.testFile, id.testName))
    IN  /\ freeSlot(c)
        /\ IF existing # 0
           THEN /\ calls' = [liveCalls EXCEPT ![c] =
                               [NoCall EXCEPT !.kind = "waitForReady",
                                              !.testFile = id.testFile,
                                              !.testName = id.testName,
                                              !.status = "resolved",
                                              !.result = infos[existing].state,
                                              !.settles = 1]]
                /\ UNCHANGED <<stateUpdateCallbacks, pendingCallbacks>>
           ELSE registerWaiter(c, "waitForReady", id, 0)
        /\ notified' = <<>>
        /\ effects' = <<>>
        /\ returned' = NoReturn
        /\ outbox' = <<>>
        /\ infos' = liveInfos
        /\ UNCHANGED <<connections, now, wsState, managerClosed>>

\* waitForNewSession: always waits for a later ready.
WaitForNewSession(c, id, currentSessionId) ==
    /\ freeSlot(c)
    /\ registerWaiter(c, "waitForNewSession", id, currentSessionId)
    /\ notified' = <<>>
    /\ effects' = <<>>
    /\ returned' = NoReturn
    /\ outbox' = <<>>
    /\ infos' = liveInfos
    /\ UNCHANGED <<connections, now, wsState, managerClosed>>

\* What a waiter's timer does to the global list: the callback is spliced
\* out when found.
removeFromList(cbs, cb) ==
    LET index == indexOf(cbs, cb)
    IN  IF index # -1 THEN splice1(cbs, index) ELSE cbs

\* A timer that rejects and leaves the resolver where it is (the
\* alternative C9 is checked against).
timeoutExecuteKeeps(c) ==
    /\ infos' = liveInfos
    /\ calls' = [liveCalls EXCEPT ![c] =
                    rejectCall([@ EXCEPT !.timer = "fired"], "Timeout")]
    /\ UNCHANGED <<stateUpdateCallbacks, pendingCallbacks>>

\* The setTimeout callback of sendExecute: the resolver is deleted from the
\* entry the call was made on, the call is rejected.
timeoutExecute(c) ==
    /\ infos' = [liveInfos EXCEPT ![calls[c].conn].executeResolvers =
                    {r \in @ : r.executeId # calls[c].token}]
    /\ calls' = [liveCalls EXCEPT ![c] =
                    rejectCall([@ EXCEPT !.timer = "fired"], "Timeout")]
    /\ UNCHANGED <<stateUpdateCallbacks, pendingCallbacks>>

\* The setTimeout callback of waitForReady / waitForNewSession.
timeoutWaiter(c) ==
    /\ stateUpdateCallbacks' = removeFromList(stateUpdateCallbacks, waiterCb(c))
    /\ pendingCallbacks' = {q \in pendingCallbacks : q.cb # waiterCb(c)}
    /\ calls' = [liveCalls EXCEPT ![c] =
                    rejectCall([@ EXCEPT !.timer = "fired"], "Timeout")]
    /\ infos' = liveInfos

Timeout(c) ==
    /\ calls[c].timer = "armed"
    /\ IF calls[c].kind = "sendExecute" THEN timeoutExecute(c)
       ELSE timeoutWaiter(c)
    /\ notified' = <<>>
    /\ effects' = <<>>
    /\ returned' = NoReturn
    /\ outbox' = <<>>
    /\ UNCHANGED <<connections, now, wsState, managerClosed>>

\* ---- Transport close and shutdown --------------------------------------
\* Each callback of the set is spliced out of the list where it is found.
removeAllFromList(cbs, gone) == SelectSeq(cbs, LAMBDA cb : cb \notin gone)

\* cleanupCallbacksForTest, called with the map as it is after the delete:
\* (1) the callbacks bound to the entry now stored under the key, if any,
\* (2) the pending callbacks registered for the test.
cleanupCallbacksForTest(conns, testFile, testName) ==
    LET connection == connectionsGet(conns, getConnectionKey(testFile, testName))
        bound == IF connection = 0 THEN {} ELSE infos[connection].callbacks
        pendingToRemove == {q.cb : q \in {r \in pendingCallbacks :
                               r.testFile = testFile /\ r.testName = testName}}
    IN  /\ stateUpdateCallbacks' =
               removeAllFromList(stateUpdateCallbacks, bound \cup pendingToRemove)
        /\ pendingCallbacks' = {q \in pendingCallbacks : q.cb \notin pendingToRemove}
        /\ infos' = IF connection = 0 THEN liveInfos
                    ELSE [liveInfos EXCEPT ![connection].callbacks = {}]

\* removeConnectionByWebSocket: the first entry whose ws is w is deleted
\* and its test's callbacks are cleaned up; the loop stops there.
removeConnectionByWebSocket(w) ==
    LET i == findByWebSocket(connections, infos, w)
        connection == infos[connections[i].info]
        left == connectionsDelete(connections, connections[i].key)
    IN  IF i = 0
        THEN /\ infos' = liveInfos
             /\ UNCHANGED <<connections, stateUpdateCallbacks,
                            pendingCallbacks>>
        ELSE /\ connections' = left
             /\ cleanupCallbacksForTest(left, connection.testFile,
                                        connection.testName)

\* ws.on('close')
CloseWs(w) ==
    /\ wsState[w] # "closed"
    /\ wsState' = [wsState EXCEPT ![w] = "closed"]
    /\ removeConnectionByWebSocket(w)
    /\ notified' = <<>>
    /\ effects' = <<>>
    /\ returned' = NoReturn
    /\ outbox' = <<>>
    /\ calls' = liveCalls
    /\ UNCHANGED <<now, managerClosed>>

\* The transports of the entries in the map.
registeredWs(conns, heap) == {heap[conns[i].info].ws : i \in 1..Len(conns)}

\* A close() that leaves the global callback list as it is (the
\* alternative C32 is checked against).
ManagerCloseKeepsList ==
    /\ ~managerClosed
    /\ managerClosed' = TRUE
    /\ wsState' = [w \in WS |->
                     IF w \in registeredWs(connections, infos) /\ wsState[w] = "open"
                     THEN "closing" ELSE wsState[w]]
    /\ connections' = <<>>
    /\ pendingCallbacks' = {}
    /\ notified' = <<>>
    /\ effects' = <<>>
    /\ returned' = NoReturn
    /\ outbox' = <<>>
    /\ infos' = liveInfos
    /\ calls' = liveCalls
    /\ UNCHANGED <<now, stateUpdateCallbacks>>

\* close(): every registered transport is asked to close (its close event
\* comes later), the three collections are emptied.
ManagerClose ==
    /\ ~managerClosed
    /\ managerClosed' = TRUE
    /\ wsState' = [w \in WS |->
                     IF w \in registeredWs(connections, infos) /\ wsState[w] = "open"
                     THEN "closing" ELSE wsState[w]]
    /\ connections' = <<>>
    /\ stateUpdateCallbacks' = <<>>
    /\ pendingCallbacks' = {}
    /\ notified' = <<>>
    /\ effects' = <<>>
    /\ returned' = NoReturn
    /\ outbox' = <<>>
    /\ infos' = liveInfos
    /\ calls' = liveCalls
    /\ UNCHANGED <<now>>

\* ---- Durable subscribers ----------------------------------------------
\* onStateUpdate(callback)
Subscribe(s) ==
    /\ indexOf(stateUpdateCallbacks, subCb(s)) = -1
    /\ stateUpdateCallbacks' = Append(stateUpdateCallbacks, subCb(s))
    /\ notified' = <<>>
    /\ effects' = <<>>
    /\ returned' = NoReturn
    /\ outbox' = <<>>
    /\ infos' = liveInfos
    /\ calls' = liveCalls
    /\ UNCHANGED <<connections, pendingCallbacks, now, wsState, managerClosed>>

\* the function onStateUpdate returned
Unsubscribe(s) ==
    /\ indexOf(stateUpdateCallbacks, subCb(s)) # -1
    /\ stateUpdateCallbacks' = removeFromList(stateUpdateCallbacks, subCb(s))
    /\ notified' = <<>>
    /\ effects' = <<>>
    /\ returned' = NoReturn
    /\ outbox' = <<>>
    /\ infos' = liveInfos
    /\ calls' = liveCalls
    /\ UNCHANGED <<connections, pendingCallbacks, now, wsState, managerClosed>>

\* ---- Control sends ------------------------------------------------------
\* A control send that reports success although the send threw (the
\* alternative C16 is checked against).
sendControlBlind(op, type, testFile, testName, message, sendThrows) ==
    LET connection == connectionsGet(connections,
                          getConnectionKey(testFile, testName))
    IN  /\ returned' = [op |-> op, testFile |-> testFile,
                        testName |-> testName, ok |-> connection # 0,
                        value |-> <<>>]
        /\ outbox' = IF connection = 0 \/ sendThrows THEN <<>>
                     ELSE <<[ws |-> infos[connection].ws, type |-> type,
                             id |-> 0, message |-> message]>>
        /\ effects' = IF connection = 0 THEN <<>>
                      ELSE <<[op |-> "send",
                              sessionId |-> infos[connection].sessionId,
                              ok |-> ~sendThrows]>>
        /\ infos' = liveInfos
        /\ calls' = liveCalls
        /\ notified' = <<>>
        /\ UNCHANGED <<connections, stateUpdateCallbacks, pendingCallbacks,
                       now, wsState, managerClosed>>

\* The body shared by sendContinue, sendClose and sendError: false without
\* a ConnectionInfo under the key, else one message is sent on its ws and
\* true is returned, false when the send throws.
sendControl(op, type, testFile, testName, message, sendThrows) ==
    LET connection == connectionsGet(connections,
                          getConnectionKey(testFile, testName))
    IN  /\ returned' = [op |-> op, testFile |-> testFile,
                        testName |-> testName,
                        ok |-> (connection # 0 /\ ~sendThrows),
                        value |-> <<>>]
        /\ outbox' = IF connection = 0 \/ sendThrows THEN <<>>
                     ELSE <<[ws |-> infos[connection].ws, type |-> type,
                             id |-> 0, message |-> message]>>
        /\ effects' = IF connection = 0 THEN <<>>
                      ELSE <<[op |-> "send",
                              sessionId |-> infos[connection].sessionId,
                              ok |-> ~sendThrows]>>
        /\ infos' = liveInfos
        /\ calls' = liveCalls
        /\ notified' = <<>>
        /\ UNCHANGED <<connections, stateUpdateCallbacks, pendingCallbacks,
                       now, wsState, managerClosed>>

SendContinue(id, sendThrows) ==
    sendControl("sendContinue", "continue", id.testFile, id.testName, "",
                sendThrows)

\* A sendClose that drops the entry it sent the close to (the alternative
\* C17 is checked against).
sendCloseRemoves(id, sendThrows) ==
    LET key == getConnectionKey(id.testFile, id.testName)
        connection == connectionsGet(connections, key)
    IN  /\ returned' = [op |-> "sendClose", testFile |-> id.testFile,
                        testName |-> id.testName,
                        ok |-> (connection # 0 /\ ~sendThrows),
                        value |-> <<>>]
        /\ outbox' = IF connection = 0 \/ sendThrows THEN <<>>
                     ELSE <<[ws |-> infos[connection].ws, type |-> "close",
                             id |-> 0, message |-> ""]>>
        /\ effects' = IF connection = 0 THEN <<>>
                      ELSE <<[op |-> "send",
                              sessionId |-> infos[connection].sessionId,
                              ok |-> ~sendThrows]>>
        /\ connections' = connectionsDelete(connections, key)
        /\ infos' = liveInfos
        /\ calls' = liveCalls
        /\ notified' = <<>>
        /\ UNCHANGED <<stateUpdateCallbacks, pendingCallbacks, now, wsState,
                       managerClosed>>

SendClose(id, sendThrows) ==
    sendControl("sendClose", "close", id.testFile, id.testName, "",
                sendThrows)

\* The error texts a caller of sendError passes.
ErrorTexts == {"boom", "bang"}

SendError(id, error, sendThrows) ==
    sendControl("sendError", "error", id.testFile, id.testName, error,
                sendThrows)

\* ---- Queries -------------------------------------------------------------
\* Array.prototype.sort with (a, b) => b.connectedAt - a.connectedAt is
\* stable: e goes behind every element whose connectedAt is not smaller.
RECURSIVE insertByConnectedAt(_, _)
insertByConnectedAt(sorted, e) ==
    IF sorted = <<>> THEN <<e>>
    ELSE IF Head(sorted).connectedAt >= e.connectedAt
         THEN <<Head(sorted)>> \o insertByConnectedAt(Tail(sorted), e)
         ELSE <<e>> \o sorted

RECURSIVE sortByConnectedAt(_)
sortByConnectedAt(arr) ==
    IF arr = <<>> THEN <<>>
    ELSE insertByConnectedAt(sortByConnectedAt(SubSeq(arr, 1, Len(arr) - 1)),
                             arr[Len(arr)])

\* getActiveConnections: Array.from(this.connections.values())
getActiveConnections ==
    [i \in 1..Len(connections) |-> infos[connections[i].info]]

\* getCurrentState: <<state>>, or <<>> for null.  An absent or empty
\* testFile or testName is falsy.
getCurrentState(testFile, testName) ==
    IF testFile = "" \/ testName = ""
    THEN LET sorted == sortByConnectedAt(getActiveConnections)
         IN  IF Len(getActiveConnections) = 0 THEN <<>>
             ELSE <<sorted[1].state>>
    ELSE LET connection == connectionsGet(connections,
                               getConnectionKey(testFile, testName))
         IN  IF connection = 0 THEN <<>> ELSE <<infos[connection].state>>

\* A query: nothing is assigned, nothing is sent.
query(ret) ==
    /\ returned' = ret
    /\ infos' = liveInfos
    /\ calls' = liveCalls
    /\ outbox' = <<>>
    /\ notified' = <<>>
    /\ effects' = <<>>
    /\ UNCHANGED <<connections, stateUpdateCallbacks, pendingCallbacks,
                   now, wsState, managerClosed>>

\* A step in which no operation of the registry runs: the last step's
\* messages, notifications, effects and return value are gone.
registryIdle == query(NoReturn)

GetCurrentState(testFile, testName) ==
    query([op |-> "getCurrentState", testFile |-> testFile,
           testName |-> testName, ok |-> TRUE,
           value |-> getCurrentState(testFile, testName)])

GetActiveConnections ==
    query([op |-> "getActiveConnections", testFile |-> "", testName |-> "",
           ok |-> TRUE, value |-> getActiveConnections])

\* ---- MCPTools (src/src/server/tools.ts) ----------------------------------
\* The testFile parameters a tool is called with: the file the tests
\* connect from, a file no test is connected from, a file that is not
\* there.
ToolFiles == {"a", "b", "c"}

\* The path of a test file (path.resolve against the working directory).
filePath(testFile) == <<"t", testFile>>

\* The message of the error an editor operation failed with; an operation
\* that awaited a rejected latch fails with that latch's error.
RECURSIVE editorError(_)
editorError(i) ==
    IF outcome[i] = "rejectedByEarlier" THEN editorError(awaiting[i])
    ELSE IF path[i] \notin DOMAIN disk THEN "FileNotFound"
         ELSE "NoConnectCall"

\* A tool whose catch clause lets the error through (the alternative C20
\* is checked against).
uncaught(tl, message) ==
    [tl EXCEPT !.pc = "done", !.settled = "rejected", !.error = message,
               !.awaits = 0]

\* catch (error) { return { success: false, error: error.message } }
caught(tl, message) ==
    [tl EXCEPT !.pc = "done", !.settled = "returned", !.success = FALSE,
               !.error = message, !.awaits = 0]

\* return { success, error, newState / code }
returns(tl, success, error, value) ==
    [tl EXCEPT !.pc = "done", !.settled = "returned", !.success = success,
               !.error = error, !.value = value, !.awaits = 0]

\* Tool calls are made in the order of their slots.
freeTool(t) ==
    /\ tools[t].pc = "idle"
    /\ IF t = 1 THEN TRUE ELSE tools[t - 1].pc # "idle"

\* getCurrentTestState
GetCurrentTestState(t, id) ==
    LET state == getCurrentState(id.testFile, id.testName)
        tl == [NoTool EXCEPT !.op = "getCurrentTestState",
                             !.testFile = id.testFile,
                             !.testName = id.testName]
    IN  /\ freeTool(t)
        /\ tools' = [tools EXCEPT ![t] =
                        IF state = <<>>
                        THEN returns(tl, FALSE, "NoActiveConnection", <<>>)
                        ELSE returns(tl, TRUE, "", state)]
        /\ query([op |-> "getCurrentState", testFile |-> id.testFile,
                  testName |-> id.testName, ok |-> TRUE, value |-> state])
        /\ UNCHANGED editorVars

\* listActiveTests: the tests of the entries; undefined with none.
ListActiveTests(t) ==
    LET conns == getActiveConnections
        testList == [i \in 1..Len(conns) |->
                        [testFile |-> conns[i].testFile,
                         testName |-> conns[i].testName,
                         sessionId |-> conns[i].sessionId,
                         connectedAt |-> conns[i].connectedAt]]
        tl == [NoTool EXCEPT !.op = "listActiveTests"]
    IN  /\ freeTool(t)
        /\ tools' = [tools EXCEPT ![t] = returns(tl, TRUE, "", testList)]
        /\ query([op |-> "getActiveConnections", testFile |-> "",
                  testName |-> "", ok |-> TRUE, value |-> conns])
        /\ UNCHANGED editorVars

\* FileEditor.getGeneratedCode's loop from line i on: the lines between a
\* BEGIN and an END make a block, pushed at the END when it is not empty.
RECURSIVE generatedFrom(_, _, _, _, _)
generatedFrom(lines, i, inMarkerBlock, currentBlock, generatedBlocks) ==
    IF i > Len(lines) THEN generatedBlocks
    ELSE IF lines[i] = "begin"
         THEN generatedFrom(lines, i + 1, TRUE, <<>>, generatedBlocks)
    ELSE IF lines[i] = "end"
         THEN generatedFrom(lines, i + 1, FALSE, currentBlock,
                  IF Len(currentBlock) > 0
                  THEN Append(generatedBlocks, currentBlock)
                  ELSE generatedBlocks)
    ELSE generatedFrom(lines, i + 1, inMarkerBlock,
             IF inMarkerBlock THEN Append(currentBlock, lines[i])
             ELSE currentBlock,
             generatedBlocks)

generatedCode(lines) == generatedFrom(lines, 1, FALSE, <<>>, <<>>)

\* getGeneratedCode: fs.readFile is issued ...
GetGeneratedCode(t, testFile) ==
    /\ freeTool(t)
    /\ tools' = [tools EXCEPT ![t] =
                    [NoTool EXCEPT !.op = "getGeneratedCode",
                                   !.testFile = testFile,
                                   !.pc = "awaitRead"]]
    /\ registryIdle
    /\ UNCHANGED editorVars

\* ... and completes: the blocks of the content read, or the read's error.
GeneratedCodeRead(t) ==
    LET tl == tools[t]
        p == resolve(filePath(tl.testFile))
    IN  /\ tl.pc = "awaitRead"
        /\ tools' = [tools EXCEPT ![t] =
                        IF p \in DOMAIN disk
                        THEN returns(tl, TRUE, "", generatedCode(disk[p]))
                        ELSE caught(tl, "FileNotFound")]
        /\ registryIdle
        /\ UNCHANGED editorVars

\* executeTestStep up to its await: the test is the one of the state
\* getCurrentState returns; without a state the tool returns at once.
ExecuteTestStep(t, id, c, sendThrows) ==
    LET currentState == getCurrentState(id.testFile, id.testName)
        tl == [NoTool EXCEPT !.op = "executeTestStep",
                             !.testFile = id.testFile,
                             !.testName = id.testName]
    IN  /\ freeTool(t)
        /\ IF currentState = <<>>
           THEN /\ tools' = [tools EXCEPT ![t] =
                               returns(tl, FALSE, "NoActiveConnection", <<>>)]
                /\ query([op |-> "getCurrentState",
                          testFile |-> id.testFile, testName |-> id.testName,
                          ok |-> TRUE, value |-> currentState])
           ELSE /\ tools' = [tools EXCEPT ![t] =
                               [tl EXCEPT !.pc = "awaitExecute",
                                          !.awaits = c]]
                /\ SendExecute(c,
                       [testFile |-> currentState[1].testFile,
                        testName |-> currentState[1].testName], sendThrows)
        /\ UNCHANGED editorVars

\* The promise of sendExecute has settled: its state is returned, its
\* rejection is caught.
ExecuteSettled(t) ==
    LET tl == tools[t]
        cl == calls[tl.awaits]
    IN  /\ tl.pc = "awaitExecute"
        /\ cl.status \in {"resolved", "rejected"}
        /\ tools' = [tools EXCEPT ![t] =
                        IF cl.status = "resolved"
                        THEN returns(tl, TRUE, "", <<cl.result>>)
                        ELSE caught(tl, cl.error)]
        /\ registryIdle
        /\ UNCHANGED editorVars

\* connections.find(conn => conn.testFile === testFile): the identity of
\* the first entry of the file, NoIdentity for undefined.
RECURSIVE findByTestFileFrom(_, _, _)
findByTestFileFrom(conns, testFile, i) ==
    IF i > Len(conns) THEN NoIdentity
    ELSE IF conns[i].testFile = testFile
         THEN [testFile |-> conns[i].testFile, testName |-> conns[i].testName]
         ELSE findByTestFileFrom(conns, testFile, i + 1)

findByTestFile(conns, testFile) == findByTestFileFrom(conns, testFile, 1)

\* An edit that is taken to have succeeded however it settled (the
\* alternative C19 is checked against).
editNeverFailed(i) == FALSE

\* The awaited editor operation rejected: the await throws.
editFailed(i) == outcome[i] # "ok"

\* finalizeTest up to its first await: the connection of the file is
\* looked up, removeConnect is called.
FinalizeTest(t, testFile, removeMarkers, i) ==
    /\ freeTool(t)
    /\ Call(i, "removeConnect", filePath(testFile))
    /\ tools' = [tools EXCEPT ![t] =
                    [NoTool EXCEPT
                        !.op = "finalizeTest",
                        !.testFile = testFile,
                        !.removeMarkers = removeMarkers,
                        !.conn = findByTestFile(getActiveConnections,
                                                testFile),
                        !.pc = "awaitRemoveConnect",
                        !.awaits = i,
                        !.edits = <<i>>,
                        !.log = <<"removeConnect">>]]
    /\ registryIdle

\* The tail of finalizeTest: sendClose for the connection found at the
\* start, if there was one; its result is not looked at.
finalizeClose(t, sendThrows) ==
    LET tl == tools[t]
    IN  IF tl.conn # NoIdentity
        THEN /\ sendControl("sendClose", "close", tl.conn.testFile,
                            tl.conn.testName, "", sendThrows)
             /\ tools' = [tools EXCEPT ![t] =
                            returns([tl EXCEPT !.log = Append(@, "sendClose")],
                                    TRUE, "", <<>>)]
        ELSE /\ registryIdle
             /\ tools' = [tools EXCEPT ![t] = returns(tl, TRUE, "", <<>>)]

\* removeConnect has settled: its rejection is caught; else removeMarkers
\* is called when asked for, or the tail runs.
RemoveConnectSettled(t, j, sendThrows) ==
    LET tl == tools[t]
    IN  /\ tl.pc = "awaitRemoveConnect"
        /\ pc[tl.awaits] = "done"
        /\ IF editFailed(tl.awaits)
           THEN /\ tools' = [tools EXCEPT ![t] =
                               caught(tl, editorError(tl.awaits))]
                /\ registryIdle
                /\ UNCHANGED editorVars
           ELSE IF tl.removeMarkers
           THEN /\ Call(j, "removeMarkers", filePath(tl.testFile))
                /\ tools' = [tools EXCEPT ![t] =
                               [tl EXCEPT !.pc = "awaitRemoveMarkers",
                                          !.awaits = j,
                                          !.edits = Append(@, j),
                                          !.log = Append(@, "removeMarkers")]]
                /\ registryIdle
           ELSE /\ finalizeClose(t, sendThrows)
                /\ UNCHANGED editorVars

\* removeMarkers has settled: its rejection is caught, else the tail runs.
RemoveMarkersSettled(t, sendThrows) ==
    LET tl == tools[t]
    IN  /\ tl.pc = "awaitRemoveMarkers"
        /\ pc[tl.awaits] = "done"
        /\ IF editFailed(tl.awaits)
           THEN /\ tools' = [tools EXCEPT ![t] =
                               caught(tl, editorError(tl.awaits))]
                /\ registryIdle
           ELSE finalizeClose(t, sendThrows)
        /\ UNCHANGED editorVars

\* ---- Frames that are not well-formed messages ---------------------------
\* What a transport can deliver besides ready and executed messages with
\* all their fields:
\*   "undecodable"      text JSON.parse rejects
\*   "unknownType"      JSON whose type is neither ready nor executed
\*   "readyNoData"      {type: 'ready'}: message.data is undefined
\*   "readyEmptyData"   {type: 'ready', data: {}}
\*   "executedNoData"   {type: 'executed'}
\*   "executedNoState"  {type: 'executed', data: {}}
FrameKinds == {"undecodable", "unknownType", "readyNoData", "readyEmptyData",
               "executedNoData", "executedNoState"}

\* The identity read from a state without testFile and testName: both are
\* undefined, and the key built from them is "undefined:undefined".
UndefinedIdentity == [testFile |-> "undefined", testName |-> "undefined"]

\* The catch of the message handler: the error is logged and an error
\* message is sent back (the send is not guarded: when it throws nothing is
\* sent and the error leaves the handler).
invalidMessageFormat(w, sendThrows) ==
    /\ outbox' = IF sendThrows THEN <<>>
                 ELSE <<[ws |-> w, type |-> "error", id |-> 0,
                         message |-> "Invalid message format"]>>
    /\ effects' = <<[op |-> "send", sessionId |-> 0, ok |-> ~sendThrows]>>
    /\ infos' = liveInfos
    /\ calls' = liveCalls
    /\ notified' = <<>>
    /\ returned' = NoReturn
    /\ UNCHANGED <<connections, stateUpdateCallbacks, pendingCallbacks,
                   now, wsState, managerClosed>>

\* A frame the handler neither acts on nor rejects.
ignoredFrame ==
    /\ outbox' = <<>>
    /\ effects' = <<>>
    /\ infos' = liveInfos
    /\ calls' = liveCalls
    /\ notified' = <<>>
    /\ returned' = NoReturn
    /\ UNCHANGED <<connections, stateUpdateCallbacks, pendingCallbacks,
                   now, wsState, managerClosed>>

\* ws.on('message') with such a frame.  JSON.parse throws on undecodable
\* text; handleReadyMessage throws reading state.testFile of undefined;
\* handleExecutedMessage throws reading data.executeId of undefined once it
\* has found the entry of the transport, and does nothing without an entry;
\* data without fields passes: a ready is stored under the key of the
\* undefined identity, an executed replaces the stored state by undefined.
Frame(w, f, sendThrows) ==
    /\ canReceive(w)
    /\ CASE f \in {"undecodable", "readyNoData"} ->
                invalidMessageFormat(w, sendThrows)
         [] f = "unknownType" -> ~sendThrows /\ ignoredFrame
         [] f = "executedNoData" ->
                IF findByWebSocket(connections, infos, w) # 0
                THEN invalidMessageFormat(w, sendThrows)
                ELSE ~sendThrows /\ ignoredFrame
         [] f = "readyEmptyData" ->
                readyHandled(w, UndefinedIdentity, sendThrows, TRUE, {})
         [] f = "executedNoState" ->
                ~sendThrows /\ Executed(w, 0, NoState)

\* ---- The registry's specification --------------------------------------
\* The identities transport w is registered under.
identitiesOf(w) ==
    {[testFile |-> infos[connections[i].info].testFile,
      testName |-> infos[connections[i].info].testName] :
        i \in {x \in 1..Len(connections) : infos[connections[x].info].ws = w}}

\* The states an executed message from w can carry: the client's snapshot
\* of its own test, taken after the code ran; it has no session id.
executedStates(w) ==
    {[testFile |-> id.testFile, testName |-> id.testName,
      dom |-> dom, sessionId |-> 0] :
        id \in (IF identitiesOf(w) = {} THEN Identities ELSE identitiesOf(w)),
        dom \in Doms}

\* The session ids a caller of waitForNewSession can hold: none, or one
\* that was handed out.
knownSessions == 0..Len(infos)

\* The transport's events and the timers.  connectedAt is read by
\* getCurrentState alone: where that is not called the clock advances at
\* every ready.
TransportNext ==
    \/ \E w \in WS, id \in Identities, sendThrows \in BOOLEAN :
          Ready(w, id, sendThrows, TRUE) /\ UNCHANGED <<editorVars, toolVars, clientVars>>
    \/ \E c \in Calls : Timeout(c) /\ UNCHANGED <<editorVars, toolVars, clientVars>>
    \/ \E w \in WS : CloseWs(w) /\ UNCHANGED <<editorVars, toolVars, clientVars>>

\* The execute correlator.
ExecuteNext ==
    \/ \E w \in WS, executeId \in issuedTokens \cup {0} :
          \E st \in executedStates(w) :
             Executed(w, executeId, st) /\ UNCHANGED <<editorVars, toolVars, clientVars>>
    \/ \E c \in Calls, id \in Identities, sendThrows \in BOOLEAN :
          SendExecute(c, id, sendThrows) /\ UNCHANGED <<editorVars, toolVars, clientVars>>

\* The readiness waiters.
WaiterNext ==
    \/ \E c \in Calls, id \in Identities :
          WaitForReady(c, id) /\ UNCHANGED <<editorVars, toolVars, clientVars>>
    \/ \E c \in Calls, id \in Identities :
          \E cur \in knownSessions :
             WaitForNewSession(c, id, cur) /\ UNCHANGED <<editorVars, toolVars, clientVars>>

\* The durable subscribers.
SubscriberNext ==
    \/ \E s \in Subs : Subscribe(s) /\ UNCHANGED <<editorVars, toolVars, clientVars>>
    \/ \E s \in Subs : Unsubscribe(s) /\ UNCHANGED <<editorVars, toolVars, clientVars>>

\* close()
ShutdownNext == ManagerClose /\ UNCHANGED <<editorVars, toolVars, clientVars>>

\* The control sends.
ControlNext ==
    \/ \E id \in Identities, sendThrows \in BOOLEAN :
          SendContinue(id, sendThrows) /\ UNCHANGED <<editorVars, toolVars, clientVars>>
    \/ \E id \in Identities, sendThrows \in BOOLEAN :
          SendClose(id, sendThrows) /\ UNCHANGED <<editorVars, toolVars, clientVars>>
    \/ \E id \in Identities, error \in ErrorTexts, sendThrows \in BOOLEAN :
          SendError(id, error, sendThrows) /\ UNCHANGED <<editorVars, toolVars, clientVars>>

\* The queries.
QueryNext ==
    \/ \E id \in Identities \cup {NoIdentity} :
          GetCurrentState(id.testFile, id.testName) /\ UNCHANGED <<editorVars, toolVars, clientVars>>
    \/ GetActiveConnections /\ UNCHANGED <<editorVars, toolVars, clientVars>>

\* The registry on its own: the editor is left alone.
Init ==
    /\ CMInit
    /\ EditorInit
    /\ ToolsInit
    /\ ClientInit
    /\ disk = [p \in NormalizedPaths |-> <<"code">>]

Next ==
    \/ TransportNext
    \/ ExecuteNext
    \/ WaiterNext
    \/ SubscriberNext
    \/ ShutdownNext
    \/ ControlNext
    \/ QueryNext

Spec == Init /\ [][Next]_vars

\* The registry with the execute correlator and the control sends.
ControlSpecNext == TransportNext \/ ExecuteNext \/ ControlNext

ControlSpec == Init /\ [][ControlSpecNext]_vars

\* The registry read by its queries: messages, closes and the clock, which
\* may still read the same millisecond at the next ready.
QuerySpecNext ==
    \/ \E w \in WS, id \in Identities, sendThrows \in BOOLEAN,
         tick \in BOOLEAN :
          Ready(w, id, sendThrows, tick) /\ UNCHANGED <<editorVars, toolVars, clientVars>>
    \/ \E w \in WS : CloseWs(w) /\ UNCHANGED <<editorVars, toolVars, clientVars>>
    \/ \E w \in WS : \E st \in executedStates(w) :
          Executed(w, 0, st) /\ UNCHANGED <<editorVars, toolVars, clientVars>>
    \/ QueryNext

QuerySpec == Init /\ [][QuerySpecNext]_vars

\* Test identities whose names hold the character the key is joined with:
\* getConnectionKey gives "a:t:1" for the first two.
KeyIdentities ==
    {[testFile |-> "a", testName |-> "t:1"],
     [testFile |-> "a:t", testName |-> "1"],
     [testFile |-> "a", testName |-> "t1"]}

\* The registry keyed by such identities: ready and executed messages, and
\* the queries.
KeySpecNext ==
    \/ \E w \in WS, id \in KeyIdentities, sendThrows \in BOOLEAN :
          Ready(w, id, sendThrows, TRUE) /\ UNCHANGED <<editorVars, toolVars, clientVars>>
    \/ \E w \in WS : \E st \in executedStates(w) :
          Executed(w, 0, st) /\ UNCHANGED <<editorVars, toolVars, clientVars>>
    \/ \E id \in KeyIdentities :
          GetCurrentState(id.testFile, id.testName) /\ UNCHANGED <<editorVars, toolVars, clientVars>>
    \/ GetActiveConnections /\ UNCHANGED <<editorVars, toolVars, clientVars>>

KeySpec == Init /\ [][KeySpecNext]_vars

\* The tools over the editor and the registry.  The file of the connected
\* tests holds a call site inside a marker region.
ToolSpecInit ==
    /\ CMInit
    /\ EditorInit
    /\ ToolsInit
    /\ ClientInit
    /\ disk = [p \in NormalizedPaths |->
                 IF p = resolve(filePath("a"))
                 THEN <<"begin", "connect", "code", "end">>
                 ELSE <<"code">>]

ToolNext ==
    \/ \E t \in Tools, id \in Identities \cup {NoIdentity} :
          GetCurrentTestState(t, id) /\ UNCHANGED clientVars
    \/ \E t \in Tools : ListActiveTests(t) /\ UNCHANGED clientVars
    \/ \E t \in Tools, testFile \in ToolFiles : GetGeneratedCode(t, testFile) /\ UNCHANGED clientVars
    \/ \E t \in Tools : GeneratedCodeRead(t) /\ UNCHANGED clientVars
    \/ \E t \in Tools, id \in Identities \cup {NoIdentity}, c \in Calls,
         sendThrows \in BOOLEAN :
          ExecuteTestStep(t, id, c, sendThrows) /\ UNCHANGED clientVars
    \/ \E t \in Tools : ExecuteSettled(t) /\ UNCHANGED clientVars
    \/ \E t \in Tools, testFile \in ToolFiles, removeMarkers \in BOOLEAN,
         i \in Ops :
          FinalizeTest(t, testFile, removeMarkers, i) /\ UNCHANGED clientVars
    \/ \E t \in Tools, j \in Ops, sendThrows \in BOOLEAN :
          RemoveConnectSettled(t, j, sendThrows) /\ UNCHANGED clientVars
    \/ \E t \in Tools, sendThrows \in BOOLEAN :
          RemoveMarkersSettled(t, sendThrows) /\ UNCHANGED clientVars

\* The editor's own steps, and an insertCodeBeforeConnect by another
\* caller on the file that has no call site.
EditorStepNext ==
    \/ \E i \in Ops :
          Call(i, "insertCodeBeforeConnect", filePath("b"))
             /\ registryIdle /\ UNCHANGED <<toolVars, clientVars>>
    \/ \E i \in Ops : Resume(i) /\ registryIdle /\ UNCHANGED <<toolVars, clientVars>>
    \/ \E i \in Ops : Settle(i) /\ registryIdle /\ UNCHANGED <<toolVars, clientVars>>
    \/ \E i \in Ops : ReadDisk(i) /\ registryIdle /\ UNCHANGED <<toolVars, clientVars>>
    \/ \E i \in Ops : Truncate(i) /\ registryIdle /\ UNCHANGED <<toolVars, clientVars>>
    \/ \E i \in Ops : WriteDisk(i) /\ registryIdle /\ UNCHANGED <<toolVars, clientVars>>
    \/ \E i \in Ops : WriteCallback(i) /\ registryIdle /\ UNCHANGED <<toolVars, clientVars>>

ToolSpecNext ==
    \/ ToolNext
    \/ EditorStepNext
    \/ \E w \in WS, id \in Identities :
          Ready(w, id, FALSE, TRUE) /\ UNCHANGED <<editorVars, toolVars, clientVars>>
    \/ \E c \in Calls : Timeout(c) /\ UNCHANGED <<editorVars, toolVars, clientVars>>
    \/ \E w \in WS : CloseWs(w) /\ UNCHANGED <<editorVars, toolVars, clientVars>>
    \/ \E w \in WS, executeId \in issuedTokens :
          \E st \in executedStates(w) :
             Executed(w, executeId, st) /\ UNCHANGED <<editorVars, toolVars, clientVars>>

ToolSpec == ToolSpecInit /\ [][ToolSpecNext]_vars

\* The registry with the execute correlator only.
ExecSpecNext == TransportNext \/ ExecuteNext

ExecSpec == Init /\ [][ExecSpecNext]_vars

\* The registry with the waiters and subscribers only.
WaitSpecNext == TransportNext \/ WaiterNext \/ SubscriberNext

WaitSpec == Init /\ [][WaitSpecNext]_vars

\* The registry with the three suspending calls and close(), without the
\* durable subscribers.
CallSpecNext == TransportNext \/ ExecuteNext \/ WaiterNext \/ ShutdownNext

CallSpec == Init /\ [][CallSpecNext]_vars

\* One test that is run again and again: the identity every transport
\* and every call of LiveSpec is about.
RerunIdentities == {[testFile |-> "a", testName |-> "t1"]}

\* The three suspending calls, the transports' events and close() for the
\* rerun test.
LiveNext ==
    \/ \E w \in WS, id \in RerunIdentities, sendThrows \in BOOLEAN :
          Ready(w, id, sendThrows, TRUE) /\ UNCHANGED <<editorVars, toolVars, clientVars>>
    \/ \E c \in Calls : Timeout(c) /\ UNCHANGED <<editorVars, toolVars, clientVars>>
    \/ \E w \in WS : CloseWs(w) /\ UNCHANGED <<editorVars, toolVars, clientVars>>
    \/ \E w \in WS, executeId \in issuedTokens \cup {0} :
          \E st \in executedStates(w) :
             Executed(w, executeId, st) /\ UNCHANGED <<editorVars, toolVars, clientVars>>
    \/ \E c \in Calls, id \in RerunIdentities, sendThrows \in BOOLEAN :
          SendExecute(c, id, sendThrows) /\ UNCHANGED <<editorVars, toolVars, clientVars>>
    \/ \E c \in Calls, id \in RerunIdentities :
          WaitForReady(c, id) /\ UNCHANGED <<editorVars, toolVars, clientVars>>
    \/ \E c \in Calls, id \in RerunIdentities :
          \E cur \in knownSessions :
             WaitForNewSession(c, id, cur) /\ UNCHANGED <<editorVars, toolVars, clientVars>>
    \/ ManagerClose /\ UNCHANGED <<editorVars, toolVars, clientVars>>

\* The timers are fair: an armed timer fires unless it is cleared first.
LiveSpec ==
    /\ Init
    /\ [][LiveNext]_vars
    /\ \A c \in Calls : WF_vars(Timeout(c) /\ UNCHANGED <<editorVars, toolVars, clientVars>>)

\* ---- Claims about the registry ------------------------------------------
\* A step is a ready message exactly when it appends a ConnectionInfo.
readyStep == Len(infos') = Len(infos) + 1

\* The ConnectionInfo the ready message of a ready step made.
newInfo == infos'[Len(infos')]

\* C3: a pending waitForNewSession(identity, currentSession) is resolved by
\* the first ready message of the same identity that is given a session id
\* other than currentSession, with that ready's state, whatever ready,
\* executed and transport-close events came before it; and a ready step
\* resolves it only if it is such a ready.
C3_NewSessionReadyResolves ==
    [][\A c \in Calls :
         (calls[c].kind = "waitForNewSession" /\ calls[c].status = "pending"
             /\ readyStep)
         => LET such == /\ newInfo.testFile = calls[c].testFile
                        /\ newInfo.testName = calls[c].testName
                        /\ newInfo.sessionId # calls[c].currentSessionId
            IN  IF such
                THEN /\ calls'[c].status = "resolved"
                     /\ calls'[c].result = newInfo.state
                ELSE calls'[c].status = "pending"]_vars

\* C4: on every ready message the callbacks invoked are exactly the
\* callbacks that were on the state-update list when the message arrived,
\* each once, in registration order, even when earlier ones take themselves
\* off the list while being notified.
C4_EveryCallbackNotifiedInOrder ==
    [][readyStep => notified' = stateUpdateCallbacks]_vars

\* C5: a sendExecute that is resolved was resolved by an executed message
\* whose executeId is the token the call sent, and with exactly the state
\* that message carried; a message with another token never resolves it.
C5_ResolvedByOwnToken ==
    \A c \in Calls :
        (calls[c].kind = "sendExecute" /\ calls[c].status = "resolved")
        => /\ calls[c].resolvedBy.type = "executed"
           /\ calls[c].resolvedBy.executeId = calls[c].token
           /\ calls[c].result = calls[c].resolvedBy.state

\* C5's case: an executed message carrying call 2's token has arrived on
\* the connection while call 1, sent first on the same connection, waits.
C5_Witness ==
    /\ calls[1].kind = "sendExecute" /\ calls[1].status = "pending"
    /\ calls[2].kind = "sendExecute" /\ calls[2].status = "resolved"
    /\ calls[2].conn = calls[1].conn
    /\ calls[2].resolvedBy.executeId = calls[2].token
    /\ calls[2].result.dom = 2

C7_NoConnectionFailsAtOnce ==
    [][\A c \in Calls :
         (calls[c].status = "idle" /\ calls'[c].kind = "sendExecute"
             /\ connectionsGet(connections,
                    getConnectionKey(calls'[c].testFile,
                                     calls'[c].testName)) = 0)
         => /\ calls'[c].status = "rejected"
            /\ calls'[c].error = "NoConnection"
            /\ calls'[c].timer = "none"
            /\ outbox' = <<>>
            /\ connections' = connections
            /\ stateUpdateCallbacks' = stateUpdateCallbacks
            /\ pendingCallbacks' = pendingCallbacks
            /\ Len(infos') = Len(infos)
            /\ \A e \in 1..Len(infos) :
                 infos'[e].executeResolvers = infos[e].executeResolvers
            /\ \A d \in Calls \ {c} :
                 calls[d].status = "pending" => calls'[d] = calls[d]]_vars

\* C7's case: the call has failed for want of a connection while another
\* identity is connected and has a request in flight.
C7_Witness ==
    /\ calls[1].kind = "sendExecute" /\ calls[1].status = "pending"
    /\ infos[calls[1].conn].executeResolvers # {}
    /\ calls[2].kind = "sendExecute" /\ calls[2].error = "NoConnection"

\* C8: when a transport closes, the step leaves no ConnectionInfo of that
\* transport in the map, and no waiter for an identity the transport was
\* registered under on the callback list or among the pending waiters.
C8_ClosedTransportLeavesNothing ==
    [][\A w \in WS :
         (wsState[w] # "closed" /\ wsState'[w] = "closed")
         => /\ \A i \in 1..Len(connections') :
                 infos'[connections'[i].info].ws # w
            /\ \A id \in identitiesOf(w) : \A c \in Calls :
                 (calls'[c].testFile = id.testFile
                     /\ calls'[c].testName = id.testName)
                 => /\ indexOf(stateUpdateCallbacks', waiterCb(c)) = -1
                    /\ \A q \in pendingCallbacks' : q.cb # waiterCb(c)]_vars

\* C9: when the timer of a call fires the call is rejected, and in the
\* state that follows no resolver of the call is left in any
\* ConnectionInfo and its callback is neither on the callback list nor
\* among the pending waiters; the failed call is never settled again.
C9_TimeoutLeavesNoBookkeeping ==
    [][\A c \in Calls :
         /\ (calls[c].timer = "armed" /\ calls'[c].timer = "fired")
            => /\ calls'[c].status = "rejected"
               /\ calls'[c].error = "Timeout"
               /\ \A e \in 1..Len(infos') :
                    \A r \in infos'[e].executeResolvers : r.call # c
               /\ indexOf(stateUpdateCallbacks', waiterCb(c)) = -1
               /\ \A q \in pendingCallbacks' : q.cb # waiterCb(c)
         /\ calls[c].error = "Timeout" => calls'[c] = Done]_vars

\* C9's case: the timer of a sendExecute has fired while the connection it
\* was sent on is still in the map, so its reply can still come.
C9_Witness ==
    \E c \in Calls :
        /\ calls[c].kind = "sendExecute" /\ calls[c].error = "Timeout"
        /\ connectionsGet(connections,
               getConnectionKey(calls[c].testFile, calls[c].testName))
             = calls[c].conn
        /\ wsState[infos[calls[c].conn].ws] = "open"

\* C10: every sendExecute, waitForReady and waitForNewSession that is
\* pending is settled later, and no call is settled more than once,
\* whatever ready, executed, transport-close and close() events occur,
\* given that armed timers fire.
C10_SettlesExactlyOnce ==
    \A c \in Calls :
        /\ [](calls[c].settles <= 1)
        /\ (calls[c].status = "pending") ~> (calls[c].status # "pending")

\* C10's case: close() has emptied the callback list under a waiter, and
\* the waiter's timer has settled it.
C10_Witness ==
    \E c \in Calls :
        /\ managerClosed
        /\ calls[c].kind \in {"waitForReady", "waitForNewSession"}
        /\ calls[c].status = "rejected" /\ calls[c].settles = 1

\* C13: a ready message is handled in this order: the new entry is stored
\* under the identity's key, then the connected acknowledgement carrying the
\* new session id is sent on the message's transport, then the state-update
\* callbacks are invoked; the callbacks run although sending the
\* acknowledgement threw; and the session id of the acknowledgement, of the
\* stored entry, of its stored state and of the state the callbacks are
\* given is one and the same.
C13_ReadyStoresAcksNotifies ==
    [][readyStep =>
         /\ Len(effects') = 3
         /\ effects'[1].op = "set" /\ effects'[1].ok
         /\ effects'[2].op = "send"
         /\ effects'[3].op = "notify"
         /\ \A i \in 1..3 : effects'[i].sessionId = newInfo.sessionId
         /\ newInfo.state.sessionId = newInfo.sessionId
         /\ connectionsGet(connections',
                getConnectionKey(newInfo.testFile, newInfo.testName))
              = Len(infos')
         /\ outbox' = IF effects'[2].ok
                      THEN <<[ws |-> newInfo.ws, type |-> "connected",
                              id |-> newInfo.sessionId]>>
                      ELSE <<>>
         /\ stateUpdateCallbacks # <<>> =>
                (notified' # <<>> /\ notified'[1] = stateUpdateCallbacks[1])
         /\ \A c \in Calls :
                (calls[c].status = "pending"
                    /\ calls'[c].status = "resolved")
                => /\ calls'[c].result.sessionId = newInfo.sessionId
                   /\ waiterCb(c) \in newInfo.callbacks]_vars

\* A ready whose acknowledgement could not be sent has notified a
\* subscriber and resolved a waiter with the state of the stored entry.
C13_Witness ==
    /\ Len(effects) = 3
    /\ ~effects[2].ok
    /\ outbox = <<>>
    /\ \E i \in 1..Len(notified) : notified[i].t = "sub"
    /\ \E c \in Calls :
          /\ calls[c].status = "resolved"
          /\ calls[c].result.sessionId = effects[1].sessionId
          /\ waiterCb(c) \in infos[Len(infos)].callbacks

\* C14: a waitForReady(identity) called while the identity has an entry is
\* resolved at once with the stored state and registers no waiter; called
\* without one it is pending, stays pending across ready messages of other
\* identities, and is resolved by the first ready message of its identity,
\* with that ready's state.
C14_WaitForReadyResolves ==
    [][\A c \in Calls :
         /\ (calls[c].status = "idle" /\ calls'[c].kind = "waitForReady")
            => LET existing == connectionsGet(connections,
                                   getConnectionKey(calls'[c].testFile,
                                                    calls'[c].testName))
               IN  IF existing # 0
                   THEN /\ calls'[c].status = "resolved"
                        /\ calls'[c].result = infos[existing].state
                        /\ stateUpdateCallbacks' = stateUpdateCallbacks
                        /\ pendingCallbacks' = pendingCallbacks
                   ELSE /\ calls'[c].status = "pending"
                        /\ indexOf(stateUpdateCallbacks', waiterCb(c)) # -1
         /\ (calls[c].kind = "waitForReady" /\ calls[c].status = "pending"
                /\ readyStep)
            => IF /\ newInfo.testFile = calls[c].testFile
                  /\ newInfo.testName = calls[c].testName
               THEN /\ calls'[c].status = "resolved"
                    /\ calls'[c].result = newInfo.state
               ELSE calls'[c].status = "pending"]_vars

\* The ConnectionInfo records that are in the map.
entriesInMap == {connections[i].info : i \in 1..Len(connections)}

\* C15: every waiter is held in exactly one place.  While its promise is
\* unresolved its callback is on the global callback list and in the
\* pending-waiter map and in no entry's bound-callback set; once a message
\* matched it, the callback is in the bound-callback set of an entry and
\* neither on the list nor in the pending map.  Every key of the
\* pending-waiter map is on the global callback list.
C15_WaiterHeldInOnePlace ==
    /\ \A c \in Calls :
          calls[c].kind \in {"waitForReady", "waitForNewSession"} =>
             /\ calls[c].status = "pending" =>
                   /\ indexOf(stateUpdateCallbacks, waiterCb(c)) # -1
                   /\ \E q \in pendingCallbacks : q.cb = waiterCb(c)
                   /\ \A e \in 1..Len(infos) :
                         waiterCb(c) \notin infos[e].callbacks
             /\ (calls[c].status = "resolved" /\ calls[c].resolvedBy # NoMsg) =>
                   /\ indexOf(stateUpdateCallbacks, waiterCb(c)) = -1
                   /\ \A q \in pendingCallbacks : q.cb # waiterCb(c)
                   /\ \E e \in entriesInMap :
                         waiterCb(c) \in infos[e].callbacks
    /\ \A q \in pendingCallbacks :
          indexOf(stateUpdateCallbacks, q.cb) # -1

\* The message type each control send puts on the wire.
controlType(op) ==
    IF op = "sendContinue" THEN "continue"
    ELSE IF op = "sendClose" THEN "close" ELSE "error"

\* A step in which sendContinue, sendClose or sendError returned.
controlStep == returned'.op \in {"sendContinue", "sendClose", "sendError"}

\* The entry the control send of a control step looked up.
controlEntry ==
    connectionsGet(connections,
                   getConnectionKey(returned'.testFile, returned'.testName))

\* C16: sendContinue, sendClose and sendError return false and send nothing
\* when the identity has no entry; with an entry they make one send of one
\* message of type continue, close or error (carrying the given text) on
\* the entry's transport and return true, or false when that send threw,
\* in which case nothing went out.
C16_ControlSendResult ==
    [][controlStep =>
         IF controlEntry = 0
         THEN ~returned'.ok /\ outbox' = <<>> /\ effects' = <<>>
         ELSE /\ Len(effects') = 1
              /\ effects'[1].op = "send"
              /\ returned'.ok = effects'[1].ok
              /\ IF effects'[1].ok
                 THEN /\ Len(outbox') = 1
                      /\ outbox'[1].ws = infos[controlEntry].ws
                      /\ outbox'[1].type = controlType(returned'.op)
                      /\ IF returned'.op = "sendError"
                         THEN outbox'[1].message \in ErrorTexts
                         ELSE outbox'[1].message = ""
                 ELSE outbox' = <<>>]_vars

\* A control send on a connected test went out and returned true.
C16_Witness ==
    /\ returned.op = "sendError"
    /\ returned.ok
    /\ Len(outbox) = 1
    /\ outbox[1].type = "error"
    /\ outbox[1].message = "bang"

\* C17: sendClose changes nothing in the connection table: the map, every
\* entry in it (its stored state and its execute resolvers included), the
\* callback lists and every pending call are as they were, however the send
\* went; and a key leaves the map only in a step in which a transport
\* reports closed.
C17_SendCloseKeepsEntry ==
    [][/\ returned'.op = "sendClose" =>
             /\ connections' = connections
             /\ \A e \in entriesInMap : infos'[e] = infos[e]
             /\ stateUpdateCallbacks' = stateUpdateCallbacks
             /\ pendingCallbacks' = pendingCallbacks
             /\ \A c \in Calls :
                   calls[c].status = "pending" => calls'[c] = calls[c]
       /\ (\E i \in 1..Len(connections) :
              connectionsGet(connections', connections[i].key) = 0)
          => wsState' # wsState]_vars

\* sendClose returned true for a test that has a pending sendExecute: the
\* entry and the resolver are still there.
C17_Witness ==
    /\ returned.op = "sendClose"
    /\ returned.ok
    /\ \E e \in entriesInMap :
          /\ infos[e].testFile = returned.testFile
          /\ infos[e].testName = returned.testName
          /\ infos[e].executeResolvers # {}

\* The entry of the map made by the latest ready message (ConnectionInfo
\* records are numbered in the order the ready messages arrived); 0 when
\* the map is empty.
latestConnected ==
    IF entriesInMap = {} THEN 0
    ELSE CHOOSE e \in entriesInMap : \A f \in entriesInMap : f <= e

\* C18: getCurrentState called without an identity returns the state of the
\* most recently connected entry of the map, whose connect timestamp is the
\* greatest; it returns absent when the map is empty; it never throws and
\* changes nothing in the registry.
C18_MostRecentlyConnected ==
    [][(returned'.op = "getCurrentState" /\ returned'.testFile = "") =>
         /\ returned'.ok
         /\ IF latestConnected = 0 THEN returned'.value = <<>>
            ELSE /\ returned'.value = <<infos[latestConnected].state>>
                 /\ \A e \in entriesInMap :
                       infos[e].connectedAt
                          <= infos[latestConnected].connectedAt
         /\ connections' = connections
         /\ \A e \in entriesInMap : infos'[e] = infos[e]
         /\ stateUpdateCallbacks' = stateUpdateCallbacks
         /\ pendingCallbacks' = pendingCallbacks
         /\ outbox' = <<>>]_vars

\* Two ready messages have arrived for one identity and no transport has
\* closed: the second replaced the entry of the first.
secondReadyStands ==
    /\ Len(infos) = 2
    /\ Len(connections) = 1
    /\ \A w \in WS : wsState[w] = "open"

\* C12: after a second ready message for an identity that already had an
\* entry, and until that entry is removed, the state getCurrentState
\* returns for the identity carries the session id the second ready was
\* given, never another.
C12_OnlyNewerSessionId ==
    secondReadyStands =>
        LET e == connections[1].info
            st == getCurrentState(infos[e].testFile, infos[e].testName)
        IN  /\ e = 2
            /\ infos[e].sessionId = 2
            /\ st # <<>>
            /\ st[1].sessionId = infos[e].sessionId

\* The entries getActiveConnections returns for an identity.
entriesOf(id) ==
    {i \in 1..Len(getActiveConnections) :
        /\ getActiveConnections[i].testFile = id.testFile
        /\ getActiveConnections[i].testName = id.testName}

\* C11: there is at most one entry per identity, and a ready message of one
\* identity changes what the registry answers for that identity alone:
\* after it getActiveConnections holds exactly one entry of the identity
\* and getCurrentState(identity) returns the state just stored, while every
\* other identity keeps its one entry and the state stored for it.
C11_OneEntryPerIdentity ==
    [][readyStep =>
         \A id \in KeyIdentities \cup Identities :
            IF newInfo.testFile = id.testFile /\ newInfo.testName = id.testName
            THEN /\ Cardinality(entriesOf(id)') = 1
                 /\ getCurrentState(id.testFile, id.testName)'
                       = <<newInfo.state>>
            ELSE /\ Cardinality(entriesOf(id)') = Cardinality(entriesOf(id))
                 /\ Cardinality(entriesOf(id)') <= 1
                 /\ getCurrentState(id.testFile, id.testName)'
                       = getCurrentState(id.testFile, id.testName)]_vars

\* The finalizeTest calls.
finalizing == {t \in Tools : tools[t].op = "finalizeTest"}

\* The step in which finalizeTest t calls sendClose.
closeStep(t) ==
    /\ tools[t].op = "finalizeTest"
    /\ Len(tools'[t].log) = Len(tools[t].log) + 1
    /\ tools'[t].log[Len(tools'[t].log)] = "sendClose"

\* C19: finalizeTest calls removeConnect first, removeMarkers only when
\* removeMarkers is true and only after removeConnect has completed, and
\* sendClose, for a connection of the file, only after every edit it called
\* has completed; when an edit fails the call returns {success: false,
\* error} with that edit's error and sends no close, and it returns
\* success only when every edit succeeded.
C19_FinalizeOrder ==
    [][\A t \in Tools :
         /\ tools'[t].op = "finalizeTest" =>
               LET tl == tools'[t]
               IN  /\ tl.log \in
                        (IF tl.removeMarkers
                         THEN {<<"removeConnect">>,
                               <<"removeConnect", "removeMarkers">>,
                               <<"removeConnect", "removeMarkers",
                                 "sendClose">>}
                         ELSE {<<"removeConnect">>,
                               <<"removeConnect", "sendClose">>})
                   /\ kind'[tl.edits[1]] = "removeConnect"
                   /\ Len(tl.edits) = 2 =>
                         /\ kind'[tl.edits[2]] = "removeMarkers"
                         /\ outcome'[tl.edits[1]] = "ok"
                         /\ pc'[tl.edits[1]] = "done"
                   /\ tl.pc = "done" =>
                         IF \E k \in 1..Len(tl.edits) :
                               outcome'[tl.edits[k]] # "ok"
                         THEN /\ tl.settled = "returned"
                              /\ ~tl.success
                              /\ tl.error =
                                    editorError(tl.edits[Len(tl.edits)])
                              /\ tl.log[Len(tl.log)] # "sendClose"
                         ELSE /\ tl.success
                              /\ Len(tl.edits) =
                                    (IF tl.removeMarkers THEN 2 ELSE 1)
                              /\ tl.conn # NoIdentity =>
                                    tl.log[Len(tl.log)] = "sendClose"
         /\ closeStep(t) =>
               /\ \A k \in 1..Len(tools[t].edits) :
                     /\ pc[tools[t].edits[k]] = "done"
                     /\ outcome[tools[t].edits[k]] = "ok"
               /\ tools[t].conn.testFile = tools[t].testFile
               /\ returned'.op = "sendClose"
               /\ returned'.testFile = tools[t].conn.testFile
               /\ returned'.testName = tools[t].conn.testName
               /\ returned'.ok =>
                     /\ Len(outbox') = 1
                     /\ outbox'[1].type = "close"]_vars

\* A finalizeTest with removeMarkers has edited the file twice and then
\* sent the close to the test's transport: the call site and the markers
\* are gone from the file.
C19_Witness ==
    \E t \in finalizing :
        /\ tools[t].pc = "done"
        /\ tools[t].success
        /\ tools[t].log = <<"removeConnect", "removeMarkers", "sendClose">>
        /\ Len(outbox) = 1
        /\ outbox[1].type = "close"
        /\ disk[resolve(filePath(tools[t].testFile))] = <<"code">>

\* The failure the call t is about to catch: the error of the promise it
\* awaits, "" when that promise did not reject.
awaitedFailure(t) ==
    LET tl == tools[t]
    IN  IF tl.pc = "awaitExecute"
        THEN (IF calls[tl.awaits].status = "rejected"
              THEN calls[tl.awaits].error ELSE "")
        ELSE IF tl.pc \in {"awaitRemoveConnect", "awaitRemoveMarkers"}
        THEN (IF outcome[tl.awaits] # "ok" THEN editorError(tl.awaits)
              ELSE "")
        ELSE IF tl.pc = "awaitRead"
        THEN (IF resolve(filePath(tl.testFile)) \in DOMAIN disk THEN ""
              ELSE "FileNotFound")
        ELSE ""

\* C20: no MCPTools call ever rejects.  A call that is over has returned a
\* result; when the promise it awaited rejected (the editor's, or
\* sendExecute's, its timeout included) the result is {success: false,
\* error} with the message of that rejection, and every result without
\* success carries a message.
C20_ToolsNeverReject ==
    [][\A t \in Tools :
         /\ tools'[t].settled # "rejected"
         /\ tools'[t].pc = "done" =>
               /\ tools'[t].settled = "returned"
               /\ ~tools'[t].success => tools'[t].error # ""
         /\ (tools[t].pc # "done" /\ tools'[t].pc = "done"
                /\ awaitedFailure(t) # "") =>
               /\ ~tools'[t].success
               /\ tools'[t].error = awaitedFailure(t)]_vars

\* executeTestStep has returned the timeout of its sendExecute as a result.
C20_Witness ==
    \E t \in Tools :
        /\ tools[t].op = "executeTestStep"
        /\ tools[t].pc = "done"
        /\ tools[t].settled = "returned"
        /\ ~tools[t].success
        /\ tools[t].error = "Timeout"

\* ---- The editor on one file, one operation after the other ---------------
\* Every call finds the latch of the path released, so no call waits.

\* The file the operations of FileSpec work on.
FilePath == <<"t", "a">>

FileLines == {"begin", "end", "connect", "code", "decl", "open", "close"}

\* Every content of at most MaxLen lines.
FileContents == UNION { [1..n -> FileLines] : n \in 0..MaxLen }

FileOpKinds == {"removeMarkers", "removeConnect"}

\* Every operation called so far has settled.
allSettled == \A j \in Ops : pc[j] \in {"idle", "done"}

\* hasConnectCall: the file is parsed and searched; a file that cannot be
\* read gives false.
hasConnectCall(p) ==
    IF resolve(p) \in DOMAIN disk
    THEN findConnectCall(disk[resolve(p)]) # 0
    ELSE FALSE

HasConnectCall(p) ==
    /\ allSettled
    /\ query([op |-> "hasConnectCall", testFile |-> "a", testName |-> "",
              ok |-> hasConnectCall(p), value |-> <<>>])
    /\ UNCHANGED <<editorVars, toolVars, clientVars>>

\* FileEditor.getGeneratedCode on a file that exists.
ReadGeneratedCode(p) ==
    /\ allSettled
    /\ resolve(p) \in DOMAIN disk
    /\ query([op |-> "getGeneratedCode", testFile |-> "a", testName |-> "",
              ok |-> TRUE, value |-> generatedCode(disk[resolve(p)])])
    /\ UNCHANGED <<editorVars, toolVars, clientVars>>

FileSpecInit ==
    /\ \E c \in FileContents :
          disk = [p \in NormalizedPaths |->
                     IF p = FilePath THEN c ELSE <<"code">>]
    /\ initial = disk
    /\ fileLocks = [p \in LockPaths |-> 0]
    /\ pc = [i \in Ops |-> "idle"]
    /\ kind = [i \in Ops |-> "none"]
    /\ path = [i \in Ops |-> <<>>]
    /\ buf = [i \in Ops |-> <<>>]
    /\ awaiting = [i \in Ops |-> 0]
    /\ promise = [i \in Ops |-> "none"]
    /\ outcome = [i \in Ops |-> "none"]
    /\ microtasks = <<>>
    /\ inSync = FALSE
    /\ called = 0
    /\ together = TRUE
    /\ CMInit
    /\ ToolsInit
    /\ ClientInit

FileSpecNext ==
    \/ \E i \in Ops, k \in FileOpKinds :
          /\ allSettled
          /\ Call(i, k, FilePath)
          /\ registryIdle /\ UNCHANGED <<toolVars, clientVars>>
    \/ \E i \in Ops : Settle(i) /\ registryIdle /\ UNCHANGED <<toolVars, clientVars>>
    \/ \E i \in Ops : ReadDisk(i) /\ registryIdle /\ UNCHANGED <<toolVars, clientVars>>
    \/ \E i \in Ops : Truncate(i) /\ registryIdle /\ UNCHANGED <<toolVars, clientVars>>
    \/ \E i \in Ops : WriteDisk(i) /\ registryIdle /\ UNCHANGED <<toolVars, clientVars>>
    \/ \E i \in Ops : WriteCallback(i) /\ registryIdle /\ UNCHANGED <<toolVars, clientVars>>
    \/ HasConnectCall(FilePath)
    \/ ReadGeneratedCode(FilePath)

FileSpec == FileSpecInit /\ [][FileSpecNext]_vars

\* The operations called so far ran one after the other and the last one,
\* i, has settled.
lastSettled(i) == called = i /\ pc[i] = "done"

\* What the file held when operation i started, the operations before it
\* having run one after the other.
RECURSIVE contentBefore(_)
contentBefore(i) ==
    IF i = 1 THEN initial[FilePath]
    ELSE IF kind[i - 1] = "removeMarkers"
         THEN stripMarkerLines(contentBefore(i - 1))
         ELSE removeConnectStatement(contentBefore(i - 1))

\* The lines of a content that are not sentinels, in order.
RECURSIVE nonSentinel(_)
nonSentinel(lines) ==
    IF lines = <<>> THEN <<>>
    ELSE IF Head(lines) \in {"begin", "end"} THEN nonSentinel(Tail(lines))
         ELSE <<Head(lines)>> \o nonSentinel(Tail(lines))

\* C21: removeMarkers applied once, twice or three times in a row leaves the
\* same file: no BEGIN or END line is left and the other lines of the
\* original file are all there, verbatim and in their order.
C21_RemoveMarkersIdempotent ==
    \A i \in Ops :
        (/\ lastSettled(i)
         /\ \A j \in 1..i : kind[j] = "removeMarkers" /\ outcome[j] = "ok")
        => /\ disk[FilePath] = nonSentinel(initial[FilePath])
           /\ \A n \in 1..Len(disk[FilePath]) :
                 disk[FilePath][n] \notin {"begin", "end"}

C21_Witness ==
    /\ lastSettled(2)
    /\ kind[1] = "removeMarkers" /\ kind[2] = "removeMarkers"
    /\ outcome[1] = "ok" /\ outcome[2] = "ok"
    /\ initial[FilePath] = <<"begin", "code", "end", "connect">>
    /\ disk[FilePath] = <<"code", "connect">>


\* C22: once a removeConnect on the file has completed, hasConnectCall on
\* the file returns false.
C22_Counterexample ==
    \A i \in Ops :
        (/\ lastSettled(i)
         /\ kind[i] = "removeConnect" /\ outcome[i] = "ok"
         /\ returned.op = "hasConnectCall")
        => ~returned.ok

\* C23: a removeConnect that finds no call site in the file resolves, never
\* gets to a write, and leaves the content as it was.
C23_NoCallSiteNoWrite ==
    \A i \in Ops :
        (/\ called = i
         /\ kind[i] = "removeConnect"
         /\ findConnectCall(contentBefore(i)) = 0)
        => /\ pc[i] \notin {"trunc", "write", "written"}
           /\ disk[FilePath] = contentBefore(i)
           /\ pc[i] \in {"settling", "done"} => outcome[i] = "ok"

\* A second removeConnect on a file the first one finalized.
C23_Witness ==
    /\ lastSettled(2)
    /\ kind[1] = "removeConnect" /\ kind[2] = "removeConnect"
    /\ outcome[1] = "ok" /\ outcome[2] = "ok"
    /\ initial[FilePath] = <<"open", "connect", "code", "close">>
    /\ disk[FilePath] = <<"open", "code", "close">>

\* The position of the first sentinel at or after line i, 0 if none.
RECURSIVE nextSentinel(_, _)
nextSentinel(lines, i) ==
    IF i > Len(lines) THEN 0
    ELSE IF lines[i] \in {"begin", "end"} THEN i
         ELSE nextSentinel(lines, i + 1)

\* The regions of a content: for every BEGIN whose next sentinel is an END,
\* the lines strictly between the two, in file order.
RECURSIVE regionsFrom(_, _)
regionsFrom(lines, i) ==
    IF i > Len(lines) THEN <<>>
    ELSE IF lines[i] = "begin"
         THEN LET e == nextSentinel(lines, i + 1)
              IN  IF e # 0 /\ lines[e] = "end"
                  THEN <<SubSeq(lines, i + 1, e - 1)>>
                          \o regionsFrom(lines, e + 1)
                  ELSE regionsFrom(lines, i + 1)
    ELSE regionsFrom(lines, i + 1)

regions(lines) == regionsFrom(lines, 1)

\* C24: getGeneratedCode returns the bodies of the regions of the file, in
\* file order, one per BEGIN followed by its END and none twice (regions
\* without a line between the sentinels are left out of the comparison).
C24_Counterexample ==
    returned.op = "getGeneratedCode"
        => returned.value = SelectSeq(regions(disk[FilePath]),
                                      LAMBDA b : b # <<>>)

\* A content without its line n.
withoutLine(lines, n) ==
    SubSeq(lines, 1, n - 1) \o SubSeq(lines, n + 1, Len(lines))

\* C25: removeConnect deletes the statement that holds the awaited call,
\* and nothing else, wherever the call stands.
C25_Counterexample ==
    (/\ lastSettled(1)
     /\ kind[1] = "removeConnect" /\ outcome[1] = "ok"
     /\ findConnectCall(initial[FilePath]) # 0)
    => disk[FilePath] = withoutLine(initial[FilePath],
                                    findConnectCall(initial[FilePath]))


\* The ConnectionInfo a sendExecute put its resolver in is no longer the
\* map's entry of any key: its transport closed or its identity was
\* registered again.
detached(c) ==
    \A i \in 1..Len(connections) : connections[i].info # calls[c].conn

pendingExecute(c) ==
    calls[c].kind = "sendExecute" /\ calls[c].status = "pending"

\* C29: the step that takes the entry of a pending sendExecute out of the map
\* (close of the transport, ready of the identity on another transport)
\* leaves the call pending, and from then on no step settles it but its own
\* timeout: an executed message with its token does not resolve it.
C29_DetachedExecuteOnlyTimesOut ==
    [][\A c \in Calls :
          pendingExecute(c) =>
             /\ (~detached(c)
                 /\ \A i \in 1..Len(connections') :
                       connections'[i].info # calls[c].conn)
                => calls'[c] = calls[c]
             /\ detached(c)
                => \/ calls'[c] = calls[c]
                   \/ /\ calls'[c].status = "rejected"
                      /\ calls'[c].error = "Timeout"
                      /\ calls'[c].timer = "fired"]_vars

\* A sendExecute whose identity went over to the other transport, the first
\* transport still open, has run into its timeout.
C29_Witness ==
    \E c \in Calls :
        /\ calls[c].kind = "sendExecute"
        /\ calls[c].status = "rejected" /\ calls[c].error = "Timeout"
        /\ detached(c)
        /\ infos[calls[c].conn].ws # 0
        /\ wsState[infos[calls[c].conn].ws] = "open"
        /\ \E i \in 1..Len(connections) :
              /\ connections[i].key
                    = getConnectionKey(calls[c].testFile, calls[c].testName)
              /\ infos[connections[i].info].ws # infos[calls[c].conn].ws


\* ---- The fan-out with subscribers that throw ------------------------------
NotifySpecNext ==
    \/ WaitSpecNext
    \/ \E w \in WS, id \in Identities :
          \E throwers \in SUBSET {subCb(s) : s \in Subs} :
             ReadyThrowing(w, id, throwers) /\ UNCHANGED <<editorVars, toolVars, clientVars>>

NotifySpec == Init /\ [][NotifySpecNext]_vars

\* The callbacks whose error the fan-out of the step has logged.
thrown == {effects'[n].cb :
              n \in {m \in 1..Len(effects') : effects'[m].op = "callbackError"}}

\* cb was called during the step.
invoked(cb) == \E n \in 1..Len(notified') : notified'[n] = cb

\* C30: when a callback throws during the fan-out of a ready message, the
\* handling of the ready completes with the entry stored, and every callback
\* that stands after it in the list is called for that ready as well.
C30_Counterexample ==
    [][(readyStep /\ thrown # {}) =>
          /\ connectionsGet(connections',
                 getConnectionKey(newInfo.testFile, newInfo.testName))
               = Len(infos')
          /\ \A p \in 1..Len(stateUpdateCallbacks) :
                stateUpdateCallbacks[p] \in thrown =>
                   \A q \in (p + 1)..Len(stateUpdateCallbacks) :
                      invoked(stateUpdateCallbacks[q])]_vars

\* The part of C30 the catch around each call gives: the callback right
\* after one that threw is called, and the ready is handled to its end.
throwIsolated ==
    [][(readyStep /\ thrown # {}) =>
          /\ connectionsGet(connections',
                 getConnectionKey(newInfo.testFile, newInfo.testName))
               = Len(infos')
          /\ effects'[3].op = "notify"
          /\ \A p \in 1..(Len(stateUpdateCallbacks) - 1) :
                stateUpdateCallbacks[p] \in thrown =>
                   invoked(stateUpdateCallbacks[p + 1])]_vars


\* ---- The registry with frames that are not well-formed ---------------------
FrameSpecNext ==
    \/ TransportNext
    \/ ExecuteNext
    \/ \E c \in Calls, id \in Identities :
          WaitForReady(c, id) /\ UNCHANGED <<editorVars, toolVars, clientVars>>
    \/ \E w \in WS, f \in FrameKinds, sendThrows \in BOOLEAN :
          Frame(w, f, sendThrows) /\ UNCHANGED <<editorVars, toolVars, clientVars>>

FrameSpec == Init /\ [][FrameSpecNext]_vars

\* The step handled a frame that is not a well-formed message: it answered
\* "Invalid message format", stored an entry for the undefined identity, or
\* replaced a stored state by undefined.
malformedStep ==
    \/ \E n \in 1..Len(outbox') :
          /\ outbox'[n].type = "error"
          /\ outbox'[n].message = "Invalid message format"
    \/ readyStep /\ newInfo.testFile = UndefinedIdentity.testFile
    \/ \E e \in 1..Len(infos) :
          /\ infos'[e].ws # 0
          /\ infos'[e].state = NoState
          /\ infos[e].state # NoState

\* C28: a frame that is not a well-formed message leaves the transport open
\* and the connection table, the callback lists and the pending resolvers
\* as they were.
C28_Counterexample ==
    [][malformedStep =>
          /\ wsState' = wsState
          /\ connections' = connections
          /\ infos' = liveInfos
          /\ stateUpdateCallbacks' = stateUpdateCallbacks
          /\ pendingCallbacks' = pendingCallbacks
          /\ calls' = liveCalls]_vars

\* The same for the frames the handler's catch sees: undecodable text and
\* messages without data.
rejectedFrameLocal ==
    [][(\E n \in 1..Len(outbox') :
           /\ outbox'[n].type = "error"
           /\ outbox'[n].message = "Invalid message format") =>
          /\ wsState' = wsState
          /\ connections' = connections
          /\ infos' = liveInfos
          /\ stateUpdateCallbacks' = stateUpdateCallbacks
          /\ pendingCallbacks' = pendingCallbacks
          /\ calls' = liveCalls]_vars


\* ---- The client on its own -------------------------------------------------
ClientSpec == Init /\ [][ClientNext]_vars

\* The executed messages the client has sent for executeId e.
repliesTo(e) ==
    {n \in 1..Len(client.sent) :
        client.sent[n].type = "executed" /\ client.sent[n].executeId = e}

C27_ConnectSuspendsAndReturns ==
    [][/\ client'.result # "threw"
       /\ client'.last \in {"connected", "continue", "execute",
                            "executeDone", "malformed"}
          => /\ client'.pc = client.pc
             /\ client'.result = client.result
             /\ client'.promise = client.promise
             /\ client'.ws = client.ws
       /\ (client.promise = "pending" /\ client'.last = "close")
          => /\ client'.promise = "resolved"
             /\ client'.pc = "done" /\ client'.result = "returned"
             /\ client'.ws \in {"closing", "closed"}
       /\ (client.promise = "pending"
             /\ client'.last \in {"error", "transportError", "timeout"})
          => /\ client'.promise = "rejected"
             /\ client'.pc = "done" /\ client'.result = "returned"]_vars

\* connect() returned on a close message after a session with a session id,
\* an execute answered, and its transport closing.
C27_Witness ==
    /\ client.result = "returned" /\ client.via = "close"
    /\ client.sessionId # 0
    /\ client.execs[1] = "sent"
    /\ client.ws = "closing"
    /\ client.timer = "cleared"


\* C31: an executed message whose token has no resolver on the entry of the
\* transport it came in on settles no call, sends nothing and changes
\* nothing but the stored state of that entry: the resolvers of the entry
\* are all still there.
C31_UnmatchedTokenIgnored ==
    [][\A w \in WS, executeId \in issuedTokens \cup {0} :
          \A st \in executedStates(w) :
             LET i == findByWebSocket(connections, infos, w)
                 e == connections[i].info
             IN  (/\ i # 0
                  /\ \A r \in infos[e].executeResolvers :
                        r.executeId # executeId
                  /\ Executed(w, executeId, st))
                 => /\ calls' = liveCalls
                    /\ infos' = [liveInfos EXCEPT ![e].state = st]
                    /\ infos'[e].executeResolvers = infos[e].executeResolvers
                    /\ outbox' = <<>>
                    /\ connections' = connections]_vars

\* The stored state of an entry was replaced while two sendExecute calls on
\* it are pending.
C31_Witness ==
    \E e \in 1..Len(infos) :
        /\ infos[e].state.dom # 0
        /\ Cardinality(infos[e].executeResolvers) = 2
        /\ \A c \in Calls : pendingExecute(c) /\ calls[c].conn = e


\* A waiter that is pending with its callback in no list: nothing but its
\* timer refers to it.
orphanWaiter(c) ==
    /\ calls[c].status = "pending"
    /\ calls[c].kind \in {"waitForReady", "waitForNewSession"}
    /\ indexOf(stateUpdateCallbacks, waiterCb(c)) = -1

closeOf(w) == wsState[w] # "closed" /\ wsState'[w] = "closed"

\* C33: the close of a transport leaves every entry of another transport in
\* the map, under its key, with its session id, state and resolvers as they
\* were; so the entry of an identity that was registered again on a new
\* transport outlives the close of the old one.
C33_OldCloseSparesNewEntry ==
    [][\A w \in WS :
          closeOf(w) =>
             \A i \in 1..Len(connections) :
                infos[connections[i].info].ws # w =>
                   /\ connectionsGet(connections', connections[i].key)
                         = connections[i].info
                   /\ infos'[connections[i].info]
                         = infos[connections[i].info]]_vars

\* The first transport has closed after the identity of a sendExecute that
\* is pending on its old entry moved to the second transport.
C33_Witness ==
    \E c \in Calls :
        /\ pendingExecute(c)
        /\ detached(c)
        /\ wsState[infos[calls[c].conn].ws] = "closed"
        /\ \E i \in 1..Len(connections) :
              /\ connections[i].key
                    = getConnectionKey(calls[c].testFile, calls[c].testName)
              /\ infos[connections[i].info].ws # infos[calls[c].conn].ws
              /\ infos[connections[i].info].sessionId
                    # infos[calls[c].conn].sessionId
              /\ infos[connections[i].info].state.sessionId
                    = infos[connections[i].info].sessionId


\* C34: the state stored in an entry of the map carries the session id of
\* the entry.
C34_Counterexample ==
    \A i \in 1..Len(connections) :
        infos[connections[i].info].state.sessionId
            = infos[connections[i].info].sessionId


\* C35: a waitForNewSession called while its identity has an entry whose
\* session id is not currentSessionId is resolved by the call itself, with
\* the state of that entry.
C35_Counterexample ==
    [][\A c \in Calls :
          LET cl == calls'[c]
              e == connectionsGet(connections,
                       getConnectionKey(cl.testFile, cl.testName))
          IN  (/\ calls[c].status \notin {"pending"}
               /\ cl.kind = "waitForNewSession"
               /\ calls[c] # cl
               /\ cl.settles = 0
               /\ e # 0
               /\ infos[e].sessionId # cl.currentSessionId)
              => /\ cl.status = "resolved"
                 /\ cl.result = infos[e].state]_vars


\* C36: no entry of the map holds a transport that has reported closed.
C36_Counterexample ==
    \A i \in 1..Len(connections) :
        wsState[infos[connections[i].info].ws] # "closed"


\* C37: an operation queued behind one that failed still runs its own body
\* and ends with its own outcome, and once every operation called has
\* settled the lock map holds no latch.
C37_Counterexample ==
    /\ \A i \in Ops : outcome[i] # "rejectedByEarlier"
    /\ (called > 0 /\ \A i \in 1..called : pc[i] = "done")
       => \A p \in LockPaths : fileLocks[p] = 0


\* The client with its timer: a timeout that is armed fires unless it is
\* cleared.
ClientLiveSpec == ClientSpec /\ WF_vars(ClientTimeout)

\* C38: a connect() that is suspended returns in the end.
C38_Counterexample == (client.pc = "suspended") ~> (client.pc = "done")


\* The tools that name a test, over tests of two files.  A tool's testFile
\* and testName are optional: "" stands for a parameter that is absent.
TargetIdentities ==
    { [testFile |-> "a", testName |-> "t1"],
      [testFile |-> "b", testName |-> "t1"] }

TargetParams ==
    { [testFile |-> f, testName |-> n] : f \in {"", "a", "b"},
                                         n \in {"", "t1"} }

TargetSpecNext ==
    \/ \E w \in WS, id \in TargetIdentities :
          Ready(w, id, FALSE, TRUE)
             /\ UNCHANGED <<editorVars, toolVars, clientVars>>
    \/ \E w \in WS : CloseWs(w) /\ UNCHANGED <<editorVars, toolVars, clientVars>>
    \/ \E w \in WS, executeId \in issuedTokens :
          \E st \in executedStates(w) :
             Executed(w, executeId, st)
                /\ UNCHANGED <<editorVars, toolVars, clientVars>>
    \/ \E t \in Tools, id \in TargetParams :
          GetCurrentTestState(t, id) /\ UNCHANGED clientVars
    \/ \E t \in Tools, id \in TargetParams, c \in Calls :
          ExecuteTestStep(t, id, c, FALSE) /\ UNCHANGED clientVars
    \/ \E t \in Tools : ExecuteSettled(t) /\ UNCHANGED clientVars

TargetSpec == Init /\ [][TargetSpecNext]_vars

\* C39: a getCurrentTestState or executeTestStep that was given a testFile
\* returns the state of a test of that file, and the entry its execute
\* message went to is one of that file.
C39_Counterexample ==
    \A t \in Tools :
       LET tl == tools[t]
       IN  (tl.op \in {"getCurrentTestState", "executeTestStep"}
               /\ tl.testFile # "")
           => /\ (tl.settled = "returned" /\ tl.success)
                 => tl.value[1].testFile = tl.testFile
              /\ (tl.pc = "awaitExecute" /\ calls[tl.awaits].conn # 0)
                 => infos[calls[tl.awaits].conn].testFile = tl.testFile


\* C40: when finalizeTest returns success after sending its close message,
\* every entry whose testFile is the one finalized was sent a close message
\* in that step.
C40_Counterexample ==
    [][\A t \in Tools :
          (/\ tools[t].op = "finalizeTest"
           /\ tools[t].pc # "done"
           /\ tools'[t].pc = "done"
           /\ tools'[t].success
           /\ outbox' # <<>>)
          => \A i \in 1..Len(connections') :
                infos'[connections'[i].info].testFile = tools[t].testFile
                => \E k \in 1..Len(outbox') :
                      /\ outbox'[k].type = "close"
                      /\ outbox'[k].ws = infos'[connections'[i].info].ws]_vars

\* The editor on its own: the registry is left alone.
EditorSpecInit == EditorInit /\ CMInit /\ ToolsInit /\ ClientInit

EditorSpecNext ==
    \/ \E i \in Ops, k \in OpKinds, p \in RawPaths :
          Call(i, k, p) /\ UNCHANGED <<cmVars, toolVars, clientVars>>
    \/ \E i \in Ops : Resume(i) /\ UNCHANGED <<cmVars, toolVars, clientVars>>
    \/ \E i \in Ops : Settle(i) /\ UNCHANGED <<cmVars, toolVars, clientVars>>
    \/ \E i \in Ops : ReadDisk(i) /\ UNCHANGED <<cmVars, toolVars, clientVars>>
    \/ \E i \in Ops : Truncate(i) /\ UNCHANGED <<cmVars, toolVars, clientVars>>
    \/ \E i \in Ops : WriteDisk(i) /\ UNCHANGED <<cmVars, toolVars, clientVars>>
    \/ \E i \in Ops : WriteCallback(i) /\ UNCHANGED <<cmVars, toolVars, clientVars>>

EditorSpec == EditorSpecInit /\ [][EditorSpecNext]_vars

=============================================================================
